---- MODULE Spec2Model ----
(***************************************************************************)
(* Azure DevOps MCP adapter: credential resolution (AuthConfig),           *)
(* request signing (AuthManager), the REST client (AzureDevOpsClient)      *)
(* and the tool layer (server.py).                                         *)
(*                                                                         *)
(* Python values are modelled as follows.                                  *)
(*   Optional[x]   None is <<>>, a present value x is <<x>>.               *)
(*   str (PAT, tokens, base64 text)  a sequence of character codes.        *)
(*   str (names, messages parts)     a TLA+ string.                        *)
(*   an exception  a record [type, msg, status]; msg is the sequence of    *)
(*                 the parts the f-string concatenates.                    *)
(***************************************************************************)
EXTENDS Integers, Sequences, FiniteSets, TLC

VARIABLES
    env,      \* os.environ: the five variables the code reads
    context,  \* the Arcade context handed to a tool (its get_secret behaviour)
    auth,     \* per invocation: the AuthManager (config, _oauth_token)
    pc,       \* per invocation: where the coroutine stands
    call,     \* per invocation: the tool / client operation running, and its arguments
    http,     \* per invocation: AzureDevOpsClient._client (none, open, closed)
    created,  \* per invocation: how many httpx.AsyncClient objects were constructed
    sent,     \* per invocation: the HTTP requests handed to httpx, in order
    received, \* per invocation: the answers the current call got, in order
    outcome,  \* per invocation: what the last finished call returned or raised
    lookups,  \* per invocation: the keys get_secret was called with, in order
    oauth,    \* the OAuthHandler object: _app and _cached_token
    apps_built, \* how many ConfidentialClientApplication objects were constructed
    otask,    \* per task using the OAuthHandler: the call it is in and its result
    smgr,     \* the HTTPSessionManager: registry, creation lock, transports
    sreq      \* per stateful HTTP request: where its handler stands

vars == <<env, context, auth, pc, call, http, created, sent, received, outcome,
          lookups, oauth, apps_built, otask, smgr, sreq>>

\* The state of the session manager and of the requests it handles.
sessVars == <<smgr, sreq>>

\* The state of the OAuthHandler and of the tasks that use it.
oauthVars == <<oauth, apps_built, otask>>

\* The state of the tool layer, the client and the signer.
toolVars == <<env, context, auth, pc, call, http, created, sent, received,
              outcome, lookups>>

----------------------------------------------------------------------------
(* Optional values and truthiness *)

None == <<>>
Some(x) == <<x>>
Val(o) == o[1]

\* Python truthiness of an Optional[str] whose value is a TLA+ string.
TruthyStr(o) == o # <<>> /\ o[1] # ""
\* Python truthiness of an Optional[str] whose value is a code sequence.
TruthySeq(o) == o # <<>> /\ Len(o[1]) > 0
\* Python truthiness of an Optional[int].
TruthyInt(o) == o # <<>> /\ o[1] # 0

----------------------------------------------------------------------------
(* str.encode() and base64.b64encode *)

\* str.encode(): UTF-8 bytes of a sequence of code points (below U+0800).
RECURSIVE Utf8Encode(_)
Utf8Encode(s) ==
    IF Len(s) = 0 THEN <<>>
    ELSE LET c == Head(s)
             b == IF c < 128 THEN <<c>>
                  ELSE <<192 + (c \div 64), 128 + (c % 64)>>
         IN  b \o Utf8Encode(Tail(s))

\* The base64 alphabet: index 0..63 to the character code.
B64Char(i) ==
    IF i < 26 THEN 65 + i
    ELSE IF i < 52 THEN 71 + i
    ELSE IF i < 62 THEN i - 4
    ELSE IF i = 62 THEN 43
    ELSE 47

\* base64.b64encode(bytes).decode(): the text, as character codes, '=' padded.
RECURSIVE b64encode(_)
b64encode(bytes) ==
    IF Len(bytes) = 0 THEN <<>>
    ELSE IF Len(bytes) = 1 THEN
        LET n == bytes[1] * 65536
        IN  <<B64Char(n \div 262144), B64Char((n \div 4096) % 64), 61, 61>>
    ELSE IF Len(bytes) = 2 THEN
        LET n == bytes[1] * 65536 + bytes[2] * 256
        IN  <<B64Char(n \div 262144), B64Char((n \div 4096) % 64),
              B64Char((n \div 64) % 64), 61>>
    ELSE
        LET n == bytes[1] * 65536 + bytes[2] * 256 + bytes[3]
        IN  <<B64Char(n \div 262144), B64Char((n \div 4096) % 64),
              B64Char((n \div 64) % 64), B64Char(n % 64)>>
            \o b64encode(SubSeq(bytes, 4, Len(bytes)))

----------------------------------------------------------------------------
(* Exceptions *)

Exc(type, msg, status) == [type |-> type, msg |-> msg, status |-> status]

AuthenticationError(msg) == Exc("AuthenticationError", <<msg>>, None)
RuntimeError(msg) == Exc("RuntimeError", msg, None)

Returned(v) == [kind |-> "return", value |-> v, exc |-> Exc("", <<>>, None)]
Raised(e) == [kind |-> "raise", value |-> None, exc |-> e]
NoOutcome == [kind |-> "none", value |-> None, exc |-> Exc("", <<>>, None)]

----------------------------------------------------------------------------
(* auth/manager.py: AuthConfig *)

AuthConfig(org, pat, cid, csec, tid) ==
    [organization |-> org, pat |-> pat, oauth_client_id |-> cid,
     oauth_client_secret |-> csec, oauth_tenant_id |-> tid]

NoConfig == AuthConfig("", None, None, None, None)

ORG_NOT_FOUND == "AZURE_DEVOPS_ORG not found in environment or Arcade secrets"
NO_CREDENTIALS ==
    "No valid credentials configured. Set AZURE_DEVOPS_PAT or configure Arcade secrets."

\* context.get_secret(key): the context either raises for the key or returns
\* an Optional value. ctx.raises is the set of keys for which it raises.
SecretRaises(ctx, key) == key \in ctx.raises
SecretValue(ctx, key) == IF key = "AZURE_DEVOPS_ORG" THEN ctx.org ELSE ctx.pat

\* Variant: the organization check is "org is None" instead of "not org".
from_env_or_context_org_is_none(e, ctx) ==
    LET org0 == e.AZURE_DEVOPS_ORG
        pat0 == e.AZURE_DEVOPS_PAT
    IN
    IF TruthyStr(org0) /\ TruthySeq(pat0) THEN
        [ok |-> TRUE, exc |-> Exc("", <<>>, None), lookups |-> <<>>,
         config |-> AuthConfig(Val(org0), pat0, e.AZURE_AD_CLIENT_ID,
                               e.AZURE_AD_CLIENT_SECRET, e.AZURE_AD_TENANT_ID)]
    ELSE
        LET askOrg == ctx.present /\ ~TruthyStr(org0)
            orgRaised == askOrg /\ SecretRaises(ctx, "AZURE_DEVOPS_ORG")
            org1 == IF askOrg /\ ~orgRaised
                    THEN SecretValue(ctx, "AZURE_DEVOPS_ORG") ELSE org0
            askPat == ctx.present /\ ~orgRaised /\ ~TruthySeq(pat0)
            patRaised == askPat /\ SecretRaises(ctx, "AZURE_DEVOPS_PAT")
            pat1 == IF askPat /\ ~patRaised
                    THEN SecretValue(ctx, "AZURE_DEVOPS_PAT") ELSE pat0
            asked == (IF askOrg THEN <<"AZURE_DEVOPS_ORG">> ELSE <<>>)
                     \o (IF askPat THEN <<"AZURE_DEVOPS_PAT">> ELSE <<>>)
        IN
        IF org1 = None THEN
            [ok |-> FALSE, exc |-> AuthenticationError(ORG_NOT_FOUND),
             lookups |-> asked, config |-> NoConfig]
        ELSE
            [ok |-> TRUE, exc |-> Exc("", <<>>, None), lookups |-> asked,
             config |-> AuthConfig(Val(org1), pat1, None, None, None)]

\* Variant: resolution also fails when the PAT is missing.
from_env_or_context_requires_pat(e, ctx) ==
    LET org0 == e.AZURE_DEVOPS_ORG
        pat0 == e.AZURE_DEVOPS_PAT
    IN
    IF TruthyStr(org0) /\ TruthySeq(pat0) THEN
        [ok |-> TRUE, exc |-> Exc("", <<>>, None), lookups |-> <<>>,
         config |-> AuthConfig(Val(org0), pat0, e.AZURE_AD_CLIENT_ID,
                               e.AZURE_AD_CLIENT_SECRET, e.AZURE_AD_TENANT_ID)]
    ELSE
        LET askOrg == ctx.present /\ ~TruthyStr(org0)
            orgRaised == askOrg /\ SecretRaises(ctx, "AZURE_DEVOPS_ORG")
            org1 == IF askOrg /\ ~orgRaised
                    THEN SecretValue(ctx, "AZURE_DEVOPS_ORG") ELSE org0
            askPat == ctx.present /\ ~orgRaised /\ ~TruthySeq(pat0)
            patRaised == askPat /\ SecretRaises(ctx, "AZURE_DEVOPS_PAT")
            pat1 == IF askPat /\ ~patRaised
                    THEN SecretValue(ctx, "AZURE_DEVOPS_PAT") ELSE pat0
            asked == (IF askOrg THEN <<"AZURE_DEVOPS_ORG">> ELSE <<>>)
                     \o (IF askPat THEN <<"AZURE_DEVOPS_PAT">> ELSE <<>>)
        IN
        IF ~TruthyStr(org1) \/ ~TruthySeq(pat1) THEN
            [ok |-> FALSE, exc |-> AuthenticationError(ORG_NOT_FOUND),
             lookups |-> asked, config |-> NoConfig]
        ELSE
            [ok |-> TRUE, exc |-> Exc("", <<>>, None), lookups |-> asked,
             config |-> AuthConfig(Val(org1), pat1, None, None, None)]

\* Variant: the context is consulted first for both fields and the
\* environment is the fallback (the order of AuthConfig.from_context).
from_env_or_context_context_first(e, ctx) ==
    LET orgRaised == ctx.present /\ SecretRaises(ctx, "AZURE_DEVOPS_ORG")
        askPat == ctx.present /\ ~orgRaised
        patRaised == askPat /\ SecretRaises(ctx, "AZURE_DEVOPS_PAT")
        orgC == IF ctx.present /\ ~orgRaised
                THEN SecretValue(ctx, "AZURE_DEVOPS_ORG") ELSE None
        patC == IF askPat /\ ~patRaised
                THEN SecretValue(ctx, "AZURE_DEVOPS_PAT") ELSE None
        org1 == IF TruthyStr(orgC) THEN orgC ELSE e.AZURE_DEVOPS_ORG
        pat1 == IF TruthySeq(patC) THEN patC ELSE e.AZURE_DEVOPS_PAT
        asked == (IF ctx.present THEN <<"AZURE_DEVOPS_ORG">> ELSE <<>>)
                 \o (IF askPat THEN <<"AZURE_DEVOPS_PAT">> ELSE <<>>)
    IN
    IF ~TruthyStr(org1) THEN
        [ok |-> FALSE, exc |-> AuthenticationError(ORG_NOT_FOUND),
         lookups |-> asked, config |-> NoConfig]
    ELSE
        [ok |-> TRUE, exc |-> Exc("", <<>>, None), lookups |-> asked,
         config |-> AuthConfig(Val(org1), pat1, e.AZURE_AD_CLIENT_ID,
                               e.AZURE_AD_CLIENT_SECRET, e.AZURE_AD_TENANT_ID)]

\* Variant: no try/except around the get_secret calls, so what the context
\* raises leaves from_env_or_context.
from_env_or_context_propagates(e, ctx) ==
    LET org0 == e.AZURE_DEVOPS_ORG
        pat0 == e.AZURE_DEVOPS_PAT
    IN
    IF TruthyStr(org0) /\ TruthySeq(pat0) THEN
        [ok |-> TRUE, exc |-> Exc("", <<>>, None), lookups |-> <<>>,
         config |-> AuthConfig(Val(org0), pat0, e.AZURE_AD_CLIENT_ID,
                               e.AZURE_AD_CLIENT_SECRET, e.AZURE_AD_TENANT_ID)]
    ELSE
        LET askOrg == ctx.present /\ ~TruthyStr(org0)
            orgRaised == askOrg /\ SecretRaises(ctx, "AZURE_DEVOPS_ORG")
            org1 == IF askOrg /\ ~orgRaised
                    THEN SecretValue(ctx, "AZURE_DEVOPS_ORG") ELSE org0
            askPat == ctx.present /\ ~orgRaised /\ ~TruthySeq(pat0)
            patRaised == askPat /\ SecretRaises(ctx, "AZURE_DEVOPS_PAT")
            pat1 == IF askPat /\ ~patRaised
                    THEN SecretValue(ctx, "AZURE_DEVOPS_PAT") ELSE pat0
            asked == (IF askOrg THEN <<"AZURE_DEVOPS_ORG">> ELSE <<>>)
                     \o (IF askPat THEN <<"AZURE_DEVOPS_PAT">> ELSE <<>>)
        IN
        IF orgRaised \/ patRaised THEN
            [ok |-> FALSE, exc |-> Exc("SecretLookupError", asked, None),
             lookups |-> asked, config |-> NoConfig]
        ELSE IF ~TruthyStr(org1) THEN
            [ok |-> FALSE, exc |-> AuthenticationError(ORG_NOT_FOUND),
             lookups |-> asked, config |-> NoConfig]
        ELSE
            [ok |-> TRUE, exc |-> Exc("", <<>>, None), lookups |-> asked,
             config |-> AuthConfig(Val(org1), pat1, None, None, None)]

\* AuthConfig.from_env_or_context(context).  The result carries the config or
\* the exception raised, and the keys asked of the context, in order.
from_env_or_context(e, ctx) ==
    LET org0 == e.AZURE_DEVOPS_ORG
        pat0 == e.AZURE_DEVOPS_PAT
    IN
    IF TruthyStr(org0) /\ TruthySeq(pat0) THEN
        [ok |-> TRUE, exc |-> Exc("", <<>>, None), lookups |-> <<>>,
         config |-> AuthConfig(Val(org0), pat0, e.AZURE_AD_CLIENT_ID,
                               e.AZURE_AD_CLIENT_SECRET, e.AZURE_AD_TENANT_ID)]
    ELSE
        LET askOrg == ctx.present /\ ~TruthyStr(org0)
            orgRaised == askOrg /\ SecretRaises(ctx, "AZURE_DEVOPS_ORG")
            org1 == IF askOrg /\ ~orgRaised
                    THEN SecretValue(ctx, "AZURE_DEVOPS_ORG") ELSE org0
            askPat == ctx.present /\ ~orgRaised /\ ~TruthySeq(pat0)
            patRaised == askPat /\ SecretRaises(ctx, "AZURE_DEVOPS_PAT")
            pat1 == IF askPat /\ ~patRaised
                    THEN SecretValue(ctx, "AZURE_DEVOPS_PAT") ELSE pat0
            asked == (IF askOrg THEN <<"AZURE_DEVOPS_ORG">> ELSE <<>>)
                     \o (IF askPat THEN <<"AZURE_DEVOPS_PAT">> ELSE <<>>)
        IN
        IF ~TruthyStr(org1) THEN
            [ok |-> FALSE, exc |-> AuthenticationError(ORG_NOT_FOUND),
             lookups |-> asked, config |-> NoConfig]
        ELSE
            [ok |-> TRUE, exc |-> Exc("", <<>>, None), lookups |-> asked,
             config |-> AuthConfig(Val(org1), pat1, None, None, None)]

----------------------------------------------------------------------------
(* auth/manager.py: AuthManager *)

\* AuthManager.__init__(config=None, context): the manager, or the exception
\* from_env_or_context raised.
AuthManager_init(e, ctx) ==
    LET r == from_env_or_context(e, ctx)
    IN  [ok |-> r.ok, exc |-> r.exc, lookups |-> r.lookups,
         manager |-> [config |-> r.config, oauth_token |-> None]]

\* AuthManager.__init__(config=config): an explicit config is taken as it is.
AuthManager_init_config(config) == [config |-> config, oauth_token |-> None]

Basic(cred) == [Authorization |-> <<"Basic", cred>>]
Bearer(tok) == [Authorization |-> <<"Bearer", tok>>]

\* Variant: the cached OAuth token is tried before the PAT.
get_headers_bearer_first(m) ==
    IF TruthySeq(m.oauth_token) THEN Returned(Bearer(Val(m.oauth_token)))
    ELSE IF TruthySeq(m.config.pat) THEN
        Returned(Basic(b64encode(Utf8Encode(<<58>> \o Val(m.config.pat)))))
    ELSE Raised(AuthenticationError(NO_CREDENTIALS))

\* Variant: the synchronous path knows the PAT only.
get_headers_pat_only(m) ==
    IF TruthySeq(m.config.pat) THEN
        Returned(Basic(b64encode(Utf8Encode(<<58>> \o Val(m.config.pat)))))
    ELSE Raised(AuthenticationError(NO_CREDENTIALS))

\* AuthManager.get_headers()
get_headers(m) ==
    IF TruthySeq(m.config.pat) THEN
        Returned(Basic(b64encode(Utf8Encode(<<58>> \o Val(m.config.pat)))))
    ELSE IF TruthySeq(m.oauth_token) THEN
        Returned(Bearer(Val(m.oauth_token)))
    ELSE Raised(AuthenticationError(NO_CREDENTIALS))

\* Variant: the PAT check is "is not None" instead of truthiness.
get_headers_async_is_not_none(m) ==
    IF m.config.pat # None THEN
        Returned(Basic(b64encode(Utf8Encode(<<58>> \o Val(m.config.pat)))))
    ELSE Raised(AuthenticationError(NO_CREDENTIALS))

\* Variant: the asynchronous path falls back to the cached token.
get_headers_async_cached_token(m) == get_headers(m)

\* AuthManager.get_headers_async()
get_headers_async(m) ==
    IF TruthySeq(m.config.pat) THEN
        Returned(Basic(b64encode(Utf8Encode(<<58>> \o Val(m.config.pat)))))
    ELSE Raised(AuthenticationError(NO_CREDENTIALS))

\* AuthManager.has_valid_credentials()
has_valid_credentials(m) == TruthySeq(m.config.pat)

----------------------------------------------------------------------------
(* client.py: AzureDevOpsClient *)

AzureDevOpsClientError(msg, status) == Exc("AzureDevOpsClientError", msg, status)

API_VERSION == "7.1"

\* dict.update / {**a, **b}: the keys of b override those of a.
Update(a, b) ==
    [k \in (DOMAIN a) \cup (DOMAIN b) |-> IF k \in DOMAIN b THEN b[k] ELSE a[k]]

EmptyDict == [k \in {} |-> ""]

\* urllib.parse.quote on the names the model uses.
quote(s) == IF s = "My Proj" THEN "My%20Proj" ELSE s

\* Variant: BASE_URL is used as it is written, never formatted.
base_url_unformatted(m) == <<"https://dev.azure.com/", "{organization}">>

\* AzureDevOpsClient.base_url
base_url(m) == <<"https://dev.azure.com/", m.config.organization>>

\* AzureDevOpsClient.search_url
search_url(m) == <<"https://almsearch.dev.azure.com/", m.config.organization>>

\* Variant: every call constructs an httpx.AsyncClient.
client_get_client_always_new(h) == [http |-> "open", created |-> h.created + 1]

\* AzureDevOpsClient._get_client(): h is [http, created].
client_get_client(h) ==
    IF h.http = "none" \/ h.http = "closed"
    THEN [http |-> "open", created |-> h.created + 1]
    ELSE h

\* AzureDevOpsClient.close()
close(h) ==
    IF h.http = "open" THEN [http |-> "closed", created |-> h.created] ELSE h

\* The arguments one call of _request is given.
RequestArgs(method, url, params, json, headers) ==
    [method |-> method, url |-> url, params |-> params, json |-> json,
     headers |-> headers]

\* Variant: the defaults are laid over the operation's headers.
request_send_defaults_last(m, h, a) ==
    LET h1 == client_get_client(h)
        signed == get_headers_async(m)
    IN
    IF signed.kind = "raise" THEN
        [h |-> h1, sent |-> <<>>, out |-> signed]
    ELSE
        LET request_headers ==
                Update(Update(signed.value, a.headers),
                       ("Content-Type" :> "application/json")
                       @@ ("Accept" :> "application/json"))
            params == IF "api-version" \in DOMAIN a.params THEN a.params
                      ELSE Update(a.params, ("api-version" :> API_VERSION))
        IN  [h |-> h1,
             sent |-> <<[method |-> a.method, url |-> a.url, params |-> params,
                         json |-> a.json, headers |-> request_headers]>>,
             out |-> NoOutcome]

\* Variant: params are sent as the operation built them.
request_send_no_version(m, h, a) ==
    LET h1 == client_get_client(h)
        signed == get_headers_async(m)
    IN
    IF signed.kind = "raise" THEN
        [h |-> h1, sent |-> <<>>, out |-> signed]
    ELSE
        LET request_headers ==
                Update(Update(signed.value,
                              ("Content-Type" :> "application/json")
                              @@ ("Accept" :> "application/json")),
                       a.headers)
        IN  [h |-> h1,
             sent |-> <<[method |-> a.method, url |-> a.url, params |-> a.params,
                         json |-> a.json, headers |-> request_headers]>>,
             out |-> NoOutcome]

\* _request up to the await of client.request: the HTTP client is obtained,
\* the headers are signed and merged, api-version is added.  The result is the
\* client state, the request handed to httpx (if any) and the exception raised
\* before anything was sent (if any).
request_send(m, h, a) ==
    LET h1 == client_get_client(h)
        signed == get_headers_async(m)
    IN
    IF signed.kind = "raise" THEN
        [h |-> h1, sent |-> <<>>, out |-> signed]
    ELSE
        LET request_headers ==
                Update(Update(signed.value,
                              ("Content-Type" :> "application/json")
                              @@ ("Accept" :> "application/json")),
                       a.headers)
            params == IF "api-version" \in DOMAIN a.params THEN a.params
                      ELSE Update(a.params, ("api-version" :> API_VERSION))
        IN  [h |-> h1,
             sent |-> <<[method |-> a.method, url |-> a.url, params |-> params,
                         json |-> a.json, headers |-> request_headers]>>,
             out |-> NoOutcome]

\* httpx.Response.is_success
IsSuccess(status) == status >= 200 /\ status <= 299

\* The message _request builds for an httpx.HTTPStatusError.
\* body.json says what response.json() yields: "dict_message" a JSON object
\* with a "message" member, "dict" a JSON object without one, "null" JSON null
\* (the membership test raises TypeError), "invalid" not JSON at all.
StatusErrorMessage(resp) ==
    LET error_msg == <<"Azure DevOps API error: ", ToString(resp.status)>>
    IN  IF resp.body.json = "dict_message"
            THEN error_msg \o <<" - ", resp.body.message>>
        ELSE IF resp.body.json = "dict" THEN error_msg
        ELSE error_msg \o <<" - ", resp.body.text>>

\* _request from the answer of client.request on: raise_for_status, 204,
\* response.json(), and the two except clauses.
request_receive(resp) ==
    IF resp.kind = "neterr" THEN
        Raised(AzureDevOpsClientError(<<"Request failed: ", resp.detail>>, None))
    ELSE IF ~IsSuccess(resp.status) THEN
        Raised(AzureDevOpsClientError(StatusErrorMessage(resp), Some(resp.status)))
    ELSE IF resp.status = 204 THEN Returned(None)
    ELSE IF resp.body.json \in {"dict", "dict_message"}
        THEN Returned(Some(resp.body))
    ELSE IF resp.body.json = "null" THEN Returned(None)
    ELSE Raised(Exc("JSONDecodeError", <<resp.body.text>>, None))

\* get_build_log up to the await of client.get: no Content-Type/Accept, and
\* api-version always set last.
get_build_log_send(m, h, a) ==
    LET h1 == client_get_client(h)
        signed == get_headers_async(m)
    IN
    IF signed.kind = "raise" THEN
        [h |-> h1, sent |-> <<>>, out |-> signed]
    ELSE
        [h |-> h1,
         sent |-> <<[method |-> "GET", url |-> a.url,
                     params |-> Update(a.params, ("api-version" :> API_VERSION)),
                     json |-> None, headers |-> signed.value]>>,
         out |-> NoOutcome]

\* get_build_log from the answer of client.get on: nothing is caught, so the
\* httpx exceptions leave the operation as they are.
get_build_log_receive(resp) ==
    IF resp.kind = "neterr" THEN
        Raised(Exc("httpx.RequestError", <<resp.detail>>, None))
    ELSE IF ~IsSuccess(resp.status) THEN
        Raised(Exc("httpx.HTTPStatusError", <<ToString(resp.status)>>,
                   Some(resp.status)))
    ELSE Returned(Some(resp.body.text))

----------------------------------------------------------------------------
(* client.py: the operations *)

JSON_PATCH == ("Content-Type" :> "application/json-patch+json")
ZERO_ID == "0000000000000000000000000000000000000000"

\* The arguments a client operation passes to its first _request.
OpRequest(m, op, a) ==
    IF op = "list_projects" THEN
        RequestArgs("GET", base_url(m) \o <<"/_apis/projects">>,
            ("stateFilter" :> a.state_filter)
            @@ (IF TruthyInt(a.top) THEN ("$top" :> Val(a.top)) ELSE EmptyDict)
            @@ (IF TruthyInt(a.skip) THEN ("$skip" :> Val(a.skip)) ELSE EmptyDict),
            None, EmptyDict)
    ELSE IF op = "get_project" THEN
        RequestArgs("GET", base_url(m) \o <<"/_apis/projects/", quote(a.project)>>,
            EmptyDict, None, EmptyDict)
    ELSE IF op = "list_teams" THEN
        RequestArgs("GET",
            base_url(m) \o <<"/_apis/projects/", quote(a.project), "/teams">>,
            (IF TruthyInt(a.top) THEN ("$top" :> Val(a.top)) ELSE EmptyDict)
            @@ (IF TruthyInt(a.skip) THEN ("$skip" :> Val(a.skip)) ELSE EmptyDict),
            None, EmptyDict)
    ELSE IF op = "create_work_item" THEN
        RequestArgs("POST",
            base_url(m) \o <<"/", quote(a.project), "/_apis/wit/workitems/$",
                             quote(a.work_item_type)>>,
            EmptyDict, Some(a.document), JSON_PATCH)
    ELSE IF op = "update_work_item" THEN
        RequestArgs("PATCH",
            base_url(m) \o <<"/", quote(a.project), "/_apis/wit/workitems/",
                             ToString(a.work_item_id)>>,
            EmptyDict, Some(a.document), JSON_PATCH)
    ELSE IF op = "_request" THEN \* _request called with the caller's arguments
        RequestArgs(a.method, a.url, a.params, a.json, a.headers)
    ELSE IF op = "create_or_update_wiki_page" THEN
        RequestArgs("PUT",
            base_url(m) \o <<"/", quote(a.project), "/_apis/wiki/wikis/",
                             quote(a.wiki_identifier), "/pages">>,
            ("path" :> a.path), Some([content |-> a.content]),
            ("Content-Type" :> "application/json")
            @@ (IF TruthyStr(a.version) THEN ("If-Match" :> Val(a.version))
                ELSE EmptyDict))
    ELSE IF op = "search_code" THEN
        RequestArgs("POST", search_url(m) \o <<"/_apis/search/codesearchresults">>,
            EmptyDict,
            Some([searchText |-> a.search_text, top |-> a.top, skip |-> a.skip,
                  filters |->
                      (IF TruthyStr(a.project)
                          THEN ("Project" :> <<Val(a.project)>>) ELSE EmptyDict)
                      @@ (IF TruthyStr(a.repository)
                          THEN ("Repository" :> <<Val(a.repository)>>) ELSE EmptyDict)
                      @@ (IF TruthyStr(a.path)
                          THEN ("Path" :> <<Val(a.path)>>) ELSE EmptyDict)
                      @@ (IF TruthyStr(a.branch)
                          THEN ("Branch" :> <<Val(a.branch)>>) ELSE EmptyDict)]),
            EmptyDict)
    ELSE \* create_branch: the reference lookup
        RequestArgs("GET",
            base_url(m) \o <<"/", quote(a.project), "/_apis/git/repositories/",
                             quote(a.repository_id), "/refs">>,
            ("filter" :> <<"heads/", a.source_ref>>), None, EmptyDict)

\* get_build_log: the url and the params it builds itself.
BuildLogArgs(m, a) ==
    RequestArgs("GET",
        base_url(m) \o <<"/", quote(a.project), "/_apis/build/builds/",
                         ToString(a.build_id), "/logs/", ToString(a.log_id)>>,
        (IF TruthyInt(a.start_line) THEN ("startLine" :> Val(a.start_line))
         ELSE EmptyDict)
        @@ (IF TruthyInt(a.end_line) THEN ("endLine" :> Val(a.end_line))
            ELSE EmptyDict),
        None, EmptyDict)

\* Variant: the write points the new branch at the last reference found.
BranchWriteLastRef(m, a, refs) ==
    RequestArgs("POST",
        base_url(m) \o <<"/", quote(a.project), "/_apis/git/repositories/",
                         quote(a.repository_id), "/refs">>,
        EmptyDict,
        Some(<<[name |-> <<"refs/heads/", a.name>>, oldObjectId |-> ZERO_ID,
                newObjectId |-> refs[Len(refs)]]>>),
        EmptyDict)

\* create_branch: the write that follows a lookup which found references.
BranchWrite(m, a, refs) ==
    RequestArgs("POST",
        base_url(m) \o <<"/", quote(a.project), "/_apis/git/repositories/",
                         quote(a.repository_id), "/refs">>,
        EmptyDict,
        Some(<<[name |-> <<"refs/heads/", a.name>>, oldObjectId |-> ZERO_ID,
                newObjectId |-> refs[1]]>>),
        EmptyDict)

\* A client operation from its call to its first await of the network.
OpStart(m, h, op, a) ==
    IF op = "get_build_log" THEN get_build_log_send(m, h, BuildLogArgs(m, a))
    ELSE request_send(m, h, OpRequest(m, op, a))

\* Variant: create_branch writes whatever the lookup found, with the zero id
\* for a source that has no reference.
OpResumeNoRefCheck(m, h, op, a, step, resp) ==
    IF op = "get_build_log" THEN
        [h |-> h, sent |-> <<>>, out |-> get_build_log_receive(resp)]
    ELSE IF op = "create_branch" /\ step = 1 THEN
        LET r == request_receive(resp)
        IN  IF r.kind = "raise" THEN [h |-> h, sent |-> <<>>, out |-> r]
            ELSE IF r.value = None THEN
                [h |-> h, sent |-> <<>>,
                 out |-> Raised(Exc("AttributeError", <<"get">>, None))]
            ELSE request_send(m, h, BranchWrite(m, a, Val(r.value).refs \o <<ZERO_ID>>))
    ELSE [h |-> h, sent |-> <<>>, out |-> request_receive(resp)]

\* Variant: a request that failed with a client error is sent once more.
OpResumeRetry(m, h, op, a, step, resp) ==
    IF op = "get_build_log" THEN
        [h |-> h, sent |-> <<>>, out |-> get_build_log_receive(resp)]
    ELSE IF step = 1 /\ request_receive(resp).kind = "raise"
            /\ request_receive(resp).exc.type = "AzureDevOpsClientError" THEN
        request_send(m, h, OpRequest(m, op, a))
    ELSE IF op = "create_branch" /\ step = 1 THEN
        LET r == request_receive(resp)
        IN  IF r.kind = "raise" THEN [h |-> h, sent |-> <<>>, out |-> r]
            ELSE IF r.value = None THEN
                [h |-> h, sent |-> <<>>,
                 out |-> Raised(Exc("AttributeError", <<"get">>, None))]
            ELSE IF Len(Val(r.value).refs) = 0 THEN
                [h |-> h, sent |-> <<>>,
                 out |-> Raised(AzureDevOpsClientError(
                            <<"Source branch '", a.source_ref, "' not found">>,
                            None))]
            ELSE request_send(m, h, BranchWrite(m, a, Val(r.value).refs))
    ELSE [h |-> h, sent |-> <<>>, out |-> request_receive(resp)]

\* A client operation from the answer to an awaited request on: its result,
\* or the next request it sends (out.kind = "none").
OpResume(m, h, op, a, step, resp) ==
    IF op = "get_build_log" THEN
        [h |-> h, sent |-> <<>>, out |-> get_build_log_receive(resp)]
    ELSE IF op = "create_branch" /\ step = 1 THEN
        LET r == request_receive(resp)
        IN  IF r.kind = "raise" THEN [h |-> h, sent |-> <<>>, out |-> r]
            ELSE IF r.value = None THEN
                [h |-> h, sent |-> <<>>,
                 out |-> Raised(Exc("AttributeError", <<"get">>, None))]
            ELSE IF Len(Val(r.value).refs) = 0 THEN
                [h |-> h, sent |-> <<>>,
                 out |-> Raised(AzureDevOpsClientError(
                            <<"Source branch '", a.source_ref, "' not found">>,
                            None))]
            ELSE request_send(m, h, BranchWrite(m, a, Val(r.value).refs))
    ELSE [h |-> h, sent |-> <<>>, out |-> request_receive(resp)]

----------------------------------------------------------------------------
(* server.py: the tool layer *)

\* The JSON-patch document a work item tool builds: one "add" per truthy field.
PatchOp(path, value) == [op |-> "add", path |-> path, value |-> value]

FieldOps(a) ==
    (IF TruthyStr(a.title)
        THEN <<PatchOp("/fields/System.Title", Val(a.title))>> ELSE <<>>)
    \o (IF TruthyStr(a.description)
        THEN <<PatchOp("/fields/System.Description", Val(a.description))>> ELSE <<>>)
    \o (IF TruthyStr(a.assigned_to)
        THEN <<PatchOp("/fields/System.AssignedTo", Val(a.assigned_to))>> ELSE <<>>)
    \o (IF TruthyStr(a.state)
        THEN <<PatchOp("/fields/System.State", Val(a.state))>> ELSE <<>>)
    \o (IF TruthyInt(a.priority)
        THEN <<PatchOp("/fields/Microsoft.VSTS.Common.Priority", Val(a.priority))>>
        ELSE <<>>)

\* create_work_item: the required title first, then one "add" per truthy field.
CreateOps(a) ==
    <<PatchOp("/fields/System.Title", a.title)>>
    \o (IF TruthyStr(a.description)
        THEN <<PatchOp("/fields/System.Description", Val(a.description))>> ELSE <<>>)
    \o (IF TruthyStr(a.assigned_to)
        THEN <<PatchOp("/fields/System.AssignedTo", Val(a.assigned_to))>> ELSE <<>>)
    \o (IF TruthyStr(a.area_path)
        THEN <<PatchOp("/fields/System.AreaPath", Val(a.area_path))>> ELSE <<>>)
    \o (IF TruthyStr(a.iteration_path)
        THEN <<PatchOp("/fields/System.IterationPath", Val(a.iteration_path))>>
        ELSE <<>>)
    \o (IF TruthyStr(a.state)
        THEN <<PatchOp("/fields/System.State", Val(a.state))>> ELSE <<>>)
    \o (IF TruthyInt(a.priority)
        THEN <<PatchOp("/fields/Microsoft.VSTS.Common.Priority", Val(a.priority))>>
        ELSE <<>>)

\* Variant: update_work_item sends whatever document it built, empty or not.
ToolBodyNoValidation(tool, a) ==
    IF tool = "update_work_item" THEN
        [raises |-> FALSE, exc |-> Exc("", <<>>, None),
         op |-> "update_work_item",
         args |-> [project |-> a.project, work_item_id |-> a.work_item_id,
                   document |-> FieldOps(a)]]
    ELSE IF tool = "create_work_item" THEN
        [raises |-> FALSE, exc |-> Exc("", <<>>, None),
         op |-> "create_work_item",
         args |-> [project |-> a.project, work_item_type |-> a.work_item_type,
                   document |-> CreateOps(a)]]
    ELSE IF tool = "search_code" THEN
        [raises |-> FALSE, exc |-> Exc("", <<>>, None), op |-> "search_code",
         args |-> [search_text |-> a.search_text, project |-> a.project,
                   repository |-> a.repository, path |-> None, branch |-> None,
                   top |-> a.top, skip |-> 0]]
    ELSE
        [raises |-> FALSE, exc |-> Exc("", <<>>, None), op |-> tool, args |-> a]

\* A tool's try block up to its client call: the exception it raises itself,
\* or the client operation and the arguments it passes.
ToolBody(tool, a) ==
    IF tool = "update_work_item" THEN
        IF Len(FieldOps(a)) = 0 THEN
            [raises |-> TRUE,
             exc |-> RuntimeError(<<"No fields provided to update">>),
             op |-> "", args |-> a]
        ELSE
            [raises |-> FALSE, exc |-> Exc("", <<>>, None),
             op |-> "update_work_item",
             args |-> [project |-> a.project, work_item_id |-> a.work_item_id,
                       document |-> FieldOps(a)]]
    ELSE IF tool = "create_work_item" THEN
        [raises |-> FALSE, exc |-> Exc("", <<>>, None),
         op |-> "create_work_item",
         args |-> [project |-> a.project, work_item_type |-> a.work_item_type,
                   document |-> CreateOps(a)]]
    ELSE IF tool = "search_code" THEN
        [raises |-> FALSE, exc |-> Exc("", <<>>, None), op |-> "search_code",
         args |-> [search_text |-> a.search_text, project |-> a.project,
                   repository |-> a.repository, path |-> None, branch |-> None,
                   top |-> a.top, skip |-> 0]]
    ELSE \* list_projects, get_project, list_teams: the arguments are handed on
        [raises |-> FALSE, exc |-> Exc("", <<>>, None), op |-> tool, args |-> a]

\* The f-string prefix of the RuntimeError a tool raises for a client error.
ToolPrefix(tool, a) ==
    IF tool = "list_projects" THEN <<"Failed to list projects: ">>
    ELSE IF tool = "get_project"
        THEN <<"Failed to get project '", a.project, "': ">>
    ELSE IF tool = "create_work_item" THEN <<"Failed to create work item: ">>
    ELSE IF tool = "search_code" THEN <<"Failed to search code: ">>
    ELSE IF tool = "list_teams" THEN <<"Failed to list teams: ">>
    ELSE <<"Failed to update work item ", ToString(a.work_item_id), ": ">>

\* Variant: the RuntimeError carries the tool's prefix only.
ToolExceptPrefixOnly(tool, a, out) ==
    IF out.kind = "raise" /\ out.exc.type = "AzureDevOpsClientError"
    THEN Raised(RuntimeError(ToolPrefix(tool, a)))
    ELSE out

\* except AzureDevOpsClientError as e: raise RuntimeError(f"...: {e}") from e
ToolExcept(tool, a, out) ==
    IF out.kind = "raise" /\ out.exc.type = "AzureDevOpsClientError"
    THEN Raised(RuntimeError(ToolPrefix(tool, a) \o out.exc.msg))
    ELSE out

\* Variant: the client is closed on the normal path only.
ToolFinishNoCloseOnError(tool, a, h, out) ==
    [h |-> IF out.kind = "raise" THEN h ELSE close(h),
     out |-> ToolExcept(tool, a, out)]

\* The end of a tool: the except clause, then finally: await client.close().
ToolFinish(tool, a, h, out) ==
    [h |-> close(h), out |-> ToolExcept(tool, a, out)]

\* server.py _get_client(context): AuthManager(context=context), then
\* AzureDevOpsClient(auth) with no HTTP client yet.
server_get_client(e, ctx) ==
    LET mk == AuthManager_init(e, ctx)
    IN  [ok |-> mk.ok, exc |-> mk.exc, manager |-> mk.manager,
         lookups |-> mk.lookups,
         h |-> [http |-> "none", created |-> 0]]

----------------------------------------------------------------------------
(* auth/oauth.py: OAuthHandler *)

AZURE_DEVOPS_SCOPE == "499b84ac-1321-427f-aa17-267ca6975798/.default"

\* OAuthHandler.__init__
OAuthHandler_init(client_id, client_secret, tenant_id) ==
    [client_id |-> client_id, client_secret |-> client_secret,
     tenant_id |-> tenant_id, app |-> None, cached_token |-> None]

\* ConfidentialClientApplication(client_id, client_credential, authority):
\* id tells one constructed application object from another.
MsalApp(o, id) ==
    [id |-> id, client_id |-> o.client_id, client_credential |-> o.client_secret,
     authority |-> <<"https://login.microsoftonline.com/", o.tenant_id>>]

\* OAuthHandler._get_msal_app(): built counts the applications constructed.
get_msal_app(o, built) ==
    IF o.app = None THEN
        [o |-> [o EXCEPT !.app = Some(MsalApp(o, built + 1))],
         built |-> built + 1, app |-> MsalApp(o, built + 1)]
    ELSE [o |-> o, built |-> built, app |-> Val(o.app)]

\* get_access_token up to the await of run_in_executor: the application is
\* obtained and one acquire_token_for_client call is handed to the executor.
get_access_token_start(o, built) ==
    LET g == get_msal_app(o, built)
    IN  [o |-> g.o, built |-> g.built, app |-> g.app,
         request |-> [app |-> g.app.id, scopes |-> <<AZURE_DEVOPS_SCOPE>>]]

\* Variant: the token is returned but not stored.
get_access_token_finish_not_stored(o, result) ==
    IF result.kind = "raise" THEN
        [o |-> o, ret |-> Raised(Exc(result.type, <<result.detail>>, None)),
         log |-> <<>>]
    ELSE IF result.kind = "dict" /\ result.access_token # None THEN
        [o |-> o, ret |-> Returned(result.access_token), log |-> <<>>]
    ELSE IF result.kind = "dict" /\ result.error # None THEN
        [o |-> o, ret |-> Returned(None),
         log |-> <<"OAuth error: ", Val(result.error), " - ",
                   IF result.error_description # None
                   THEN Val(result.error_description) ELSE "No description">>]
    ELSE [o |-> o, ret |-> Returned(None), log |-> <<>>]

\* Variant: a call that ends without a token empties the cache.
get_access_token_finish_failure_clears(o, result) ==
    IF result.kind = "raise" THEN
        [o |-> o, ret |-> Raised(Exc(result.type, <<result.detail>>, None)),
         log |-> <<>>]
    ELSE IF result.kind = "dict" /\ result.access_token # None THEN
        [o |-> [o EXCEPT !.cached_token = result.access_token],
         ret |-> Returned(result.access_token), log |-> <<>>]
    ELSE IF result.kind = "dict" /\ result.error # None THEN
        [o |-> [o EXCEPT !.cached_token = None], ret |-> Returned(None),
         log |-> <<"OAuth error: ", Val(result.error), " - ",
                   IF result.error_description # None
                   THEN Val(result.error_description) ELSE "No description">>]
    ELSE [o |-> [o EXCEPT !.cached_token = None], ret |-> Returned(None),
          log |-> <<>>]

\* get_access_token from the executor's answer on.  result.kind is "dict"
\* (each member an Optional: None when the key is absent, so a dict with all
\* three absent is the empty dict), "none" (None) or "raise" (the call raised:
\* nothing catches it).
get_access_token_finish(o, result) ==
    IF result.kind = "raise" THEN
        [o |-> o, ret |-> Raised(Exc(result.type, <<result.detail>>, None)),
         log |-> <<>>]
    ELSE IF result.kind = "dict" /\ result.access_token # None THEN
        [o |-> [o EXCEPT !.cached_token = result.access_token],
         ret |-> Returned(result.access_token), log |-> <<>>]
    ELSE IF result.kind = "dict" /\ result.error # None THEN
        [o |-> o, ret |-> Returned(None),
         log |-> <<"OAuth error: ", Val(result.error), " - ",
                   IF result.error_description # None
                   THEN Val(result.error_description) ELSE "No description">>]
    ELSE [o |-> o, ret |-> Returned(None), log |-> <<>>]

\* OAuthHandler.get_cached_token()
get_cached_token(o) == o.cached_token

\* Variant: only the token is dropped, the application object is kept.
clear_cache_keeps_app(o) == [o EXCEPT !.cached_token = None]

\* OAuthHandler.clear_cache()
clear_cache(o) == [o EXCEPT !.cached_token = None, !.app = None]

----------------------------------------------------------------------------
(* The inputs the model draws from *)

MaxCalls == 2   \* operations called on one client object, one after the other
MaxOps == 2     \* OAuthHandler methods called by one task, one after the other

PAT_ABC123 == <<97, 98, 99, 49, 50, 51>>      \* "abc123"
PAT_CTX == <<120, 121>>                       \* "xy", the PAT the context holds
TOKEN == <<101, 121, 74>>                     \* "eyJ", an OAuth bearer token
TOKEN2 == <<101, 121, 75>>                    \* "eyK", another one

EnvOAuth ==
    { [id |-> None, secret |-> None, tenant |-> None],
      [id |-> Some("client-id"), secret |-> Some("s3cret"),
       tenant |-> Some("tenant-id")] }

Envs ==
    { [AZURE_DEVOPS_ORG |-> o, AZURE_DEVOPS_PAT |-> p,
       AZURE_AD_CLIENT_ID |-> a.id, AZURE_AD_CLIENT_SECRET |-> a.secret,
       AZURE_AD_TENANT_ID |-> a.tenant] :
      o \in {None, Some(""), Some("contoso")},
      p \in {None, Some(<<>>), Some(PAT_ABC123)},
      a \in EnvOAuth }

NoContext == [present |-> FALSE, raises |-> {}, org |-> None, pat |-> None]

\* A context is absent, or for each key raises, returns None or returns a value.
Contexts ==
    {NoContext} \cup
    { [present |-> TRUE, raises |-> r, org |-> o, pat |-> p] :
      r \in SUBSET {"AZURE_DEVOPS_ORG", "AZURE_DEVOPS_PAT"},
      o \in {None, Some("fabrikam")}, p \in {None, Some(PAT_CTX)} }

EmptyEnv ==
    [AZURE_DEVOPS_ORG |-> None, AZURE_DEVOPS_PAT |-> None,
     AZURE_AD_CLIENT_ID |-> None, AZURE_AD_CLIENT_SECRET |-> None,
     AZURE_AD_TENANT_ID |-> None]

\* The AuthManager states a client may be built over: every PAT shape (unset,
\* empty, one to seven bytes after the colon, a non-ASCII character), with and
\* without OAuth fields, with and without a token in _oauth_token.
Managers ==
    { [AuthManager_init_config(AuthConfig("contoso", p, a.id, a.secret, a.tenant))
         EXCEPT !.oauth_token = t] :
      p \in {None, Some(<<>>), Some(<<97>>), Some(<<97, 98>>), Some(PAT_ABC123),
             Some(<<233, 63>>)},
      a \in EnvOAuth,
      t \in {None, Some(TOKEN)} }

NoManager == [config |-> NoConfig, oauth_token |-> None]

WorkItemFields ==
    { [project |-> "My Proj", work_item_id |-> 42, title |-> t,
       description |-> None, assigned_to |-> None, state |-> st, priority |-> pr] :
      t \in {None, Some(""), Some("Fix login")},
      st \in {None, Some("Active")},
      pr \in {None, Some(0), Some(2)} }

\* The calls a host makes: tool name and arguments.
ToolCalls ==
    { <<"list_projects", [state_filter |-> "wellFormed", top |-> t, skip |-> k]>> :
      t \in {None, Some(0), Some(5)}, k \in {None, Some(2)} }
    \cup { <<"get_project", [project |-> "My Proj"]>> }
    \cup { <<"list_teams", [project |-> "My Proj", top |-> Some(5), skip |-> None]>> }
    \cup { <<"update_work_item", a>> : a \in WorkItemFields }
    \cup { <<"create_work_item",
             [project |-> "My Proj", work_item_type |-> "Bug", title |-> "Crash",
              description |-> None, assigned_to |-> None, area_path |-> None,
              iteration_path |-> None, state |-> None, priority |-> pr]>> :
           pr \in {None, Some(2)} }
    \cup { <<"search_code",
             [search_text |-> "TODO", project |-> pj, repository |-> None,
              top |-> 25]>> : pj \in {None, Some("My Proj")} }

\* The calls made on a client object directly: operation and arguments.
ClientCalls ==
    { <<"list_projects", [state_filter |-> "wellFormed", top |-> t, skip |-> None]>> :
      t \in {None, Some(5)} }
    \cup { <<"get_project", [project |-> "My Proj"]>> }
    \cup { <<"update_work_item",
             [project |-> "My Proj", work_item_id |-> 42,
              document |-> <<PatchOp("/fields/System.State", "Active")>>]>> }
    \cup { <<"create_work_item",
             [project |-> "My Proj", work_item_type |-> "Bug",
              document |-> <<PatchOp("/fields/System.Title", "Crash")>>]>> }
    \cup { <<"create_branch",
             [project |-> "My Proj", repository_id |-> "repo", name |-> "feature",
              source_ref |-> "main"]>> }
    \cup { <<"get_build_log",
             [project |-> "My Proj", build_id |-> 7, log_id |-> 3,
              start_line |-> sl, end_line |-> None]>> : sl \in {None, Some(10)} }
    \cup { <<"create_or_update_wiki_page",
             [project |-> "My Proj", wiki_identifier |-> "wiki", path |-> "/Home",
              content |-> "# Home", version |-> v]>> : v \in {None, Some("v7")} }
    \cup { <<"_request",
             [method |-> "GET",
              url |-> <<"https://dev.azure.com/", "contoso", "/_apis/wit/fields">>,
              params |-> ("api-version" :> "7.1-preview.2"), json |-> None,
              headers |-> ("Accept" :> "text/plain")]>> }

Body(json, message, text, refs) ==
    [json |-> json, message |-> message, text |-> text, refs |-> refs]

Bodies ==
    { Body("dict_message", "TF401019: not found", "{\"message\": \"TF401019: not found\"}", <<>>),
      Body("dict", "", "{\"count\": 0, \"value\": []}", <<>>),
      Body("dict", "", "{\"count\": 1, \"value\": [...]}", <<"a1b2c3">>),
      Body("dict", "", "{\"count\": 2, \"value\": [...]}", <<"a1b2c3", "d4e5f6">>),
      Body("null", "", "null", <<>>),
      Body("invalid", "", "<html>Bad Gateway</html>", <<>>) }

\* What the upstream may answer: a response with a status and a body, or a
\* network-level failure (httpx.RequestError).
Responses ==
    { [kind |-> "http", status |-> st, body |-> b, detail |-> ""] :
      st \in {200, 204, 302, 404, 500}, b \in Bodies }
    \cup { [kind |-> "neterr", status |-> 0, body |-> Body("invalid", "", "", <<>>),
            detail |-> "timed out"] }

\* What acquire_token_for_client may yield.
ProviderResult(kind, access_token, error, error_description, type, detail) ==
    [kind |-> kind, access_token |-> access_token, error |-> error,
     error_description |-> error_description, type |-> type, detail |-> detail]

ProviderResults ==
    { ProviderResult("dict", Some(tok), None, None, "", "") : tok \in {TOKEN, TOKEN2} }
    \cup { ProviderResult("dict", None, Some("invalid_client"), d, "", "") :
           d \in {None, Some("AADSTS7000215: invalid client secret")} }
    \cup { ProviderResult("dict", None, None, None, "", ""),
           ProviderResult("none", None, None, None, "", ""),
           ProviderResult("raise", None, None, None, "requests.ConnectionError",
                          "connection refused") }

\* The handler the tasks share.
Handler == OAuthHandler_init("client-id", "s3cret", "tenant-id")

OTasks == {"a1", "a2"}

OTask(pc_, op, n, requests, result, ret, log) ==
    [pc |-> pc_, op |-> op, n |-> n, requests |-> requests, result |-> result,
     ret |-> ret, log |-> log]

NoResult == ProviderResult("", None, None, None, "", "")
IdleTask == OTask("idle", "", 0, <<>>, NoResult, NoOutcome, <<>>)

----------------------------------------------------------------------------
(* The stateful session manager as run_async patches it (server.py)        *)

\* uuid4().hex: the n-th identifier drawn.  Identifiers are random 128-bit
\* values; the model keeps of them only that each draw differs from every
\* earlier one and from what a client can have made up.
SessionIds == <<"s1", "s2", "s3">>
uuid4_hex(n) == SessionIds[n]

\* The values of the Mcp-Session-Id header of an incoming request: absent,
\* empty, an identifier the manager never issued, or one of those it has
\* issued so far (a client cannot name an identifier before it is drawn).
SessionHeaders(issued) ==
    {None, Some(""), Some("unknown")} \cup {Some(id) : id \in issued}

\* An HTTPStreamableTransport: its session id, whether its server task has
\* been started or has ended, and whether the session was terminated.
Transport(id, state, is_terminated) ==
    [mcp_session_id |-> id, state |-> state, is_terminated |-> is_terminated]

\* The manager while its run() is active: no session yet, the creation lock
\* free, the task group set.  _server_instances maps a session id to the
\* transport of that id: its keys are kept in server_instances, the
\* transport objects, registered or not, in transports.
SessionManager ==
    [server_instances |-> {}, lock |-> "", made |-> 0,
     transports |-> [id \in {} |-> Transport("", "", FALSE)],
     task_group |-> TRUE]

SRequests == {"r1", "r2", "r3"}

SRequest(pc_, header, path, transport, made, result) ==
    [pc |-> pc_, header |-> header, path |-> path, transport |-> transport,
     created |-> made, outcome |-> result]

NoRequest == SRequest("idle", None, "", "", <<>>, "none")

\* The first lines of permissive_handle_stateful_request: a request whose
\* header names a registered session goes to that session's transport; every
\* other request, with an unknown id as with none, goes on to a new session.
handle_stateful_route(header, server_instances) ==
    IF TruthyStr(header) /\ Val(header) \in server_instances
    THEN "existing"
    ELSE "new"

new_transport_unregistered(m) ==
    LET id == uuid4_hex(m.made + 1) IN
    [m EXCEPT !.made = @ + 1,
              !.transports = (id :> Transport(id, "created", FALSE)) @@ @]

\* Under the lock: a new id, a transport of that id, and its registration
\* under the transport's id.
new_transport(m) ==
    LET id == uuid4_hex(m.made + 1) IN
    [m EXCEPT !.made = @ + 1,
              !.transports = (id :> Transport(id, "created", FALSE)) @@ @,
              !.server_instances = @ \cup {id}]

----------------------------------------------------------------------------
(* State machine *)

ToolInvocations == {"t1"}
Clients == {"c1"}

Call(tool, targs, op, args, step, n) ==
    [tool |-> tool, targs |-> targs, op |-> op, args |-> args, step |-> step,
     n |-> n]

NoCall == Call("", <<>>, "", <<>>, 0, 0)

\* Variant: one HTTP client serves every invocation, so what a call does to
\* it - opening it, closing it - is done to all.
AdvanceSharedClient(i, c, r) ==
    IF r.out.kind = "none" THEN
        /\ pc' = [pc EXCEPT ![i] = "awaiting"]
        /\ call' = [call EXCEPT ![i] = c]
        /\ http' = [j \in DOMAIN http |-> r.h.http]
        /\ created' = [created EXCEPT ![i] = r.h.created]
        /\ sent' = [sent EXCEPT ![i] = IF c.step = 1 THEN r.sent ELSE @ \o r.sent]
        /\ outcome' = [outcome EXCEPT ![i] = NoOutcome]
    ELSE
        LET f == IF c.tool # "" THEN ToolFinish(c.tool, c.targs, r.h, r.out)
                 ELSE [h |-> r.h, out |-> r.out]
        IN  /\ pc' = [pc EXCEPT ![i] = IF c.tool # "" THEN "done" ELSE "ready"]
            /\ call' = [call EXCEPT ![i] = c]
            /\ http' = [j \in DOMAIN http |-> f.h.http]
            /\ created' = [created EXCEPT ![i] = f.h.created]
            /\ sent' = [sent EXCEPT ![i] = IF c.step = 1 THEN <<>> ELSE @]
            /\ outcome' = [outcome EXCEPT ![i] = f.out]

\* r is what OpStart / OpResume yield for the call c of invocation i: the
\* coroutine awaits the next answer, or the call ends (through the tool's
\* except/finally when a tool made it).
Advance(i, c, r) ==
    IF r.out.kind = "none" THEN
        /\ pc' = [pc EXCEPT ![i] = "awaiting"]
        /\ call' = [call EXCEPT ![i] = c]
        /\ http' = [http EXCEPT ![i] = r.h.http]
        /\ created' = [created EXCEPT ![i] = r.h.created]
        /\ sent' = [sent EXCEPT ![i] = IF c.step = 1 THEN r.sent ELSE @ \o r.sent]
        /\ outcome' = [outcome EXCEPT ![i] = NoOutcome]
    ELSE
        LET f == IF c.tool # "" THEN ToolFinish(c.tool, c.targs, r.h, r.out)
                 ELSE [h |-> r.h, out |-> r.out]
        IN  /\ pc' = [pc EXCEPT ![i] = IF c.tool # "" THEN "done" ELSE "ready"]
            /\ call' = [call EXCEPT ![i] = c]
            /\ http' = [http EXCEPT ![i] = f.h.http]
            /\ created' = [created EXCEPT ![i] = f.h.created]
            /\ sent' = [sent EXCEPT ![i] = IF c.step = 1 THEN <<>> ELSE @]
            /\ outcome' = [outcome EXCEPT ![i] = f.out]

\* A tool is invoked: _get_client(context), the try block up to the first
\* await of the network, and - when nothing is awaited - except and finally.
Invoke(i, tool, a) ==
    /\ pc[i] = "idle"
    /\ LET g == server_get_client(env, context)
       IN  /\ lookups' = [lookups EXCEPT ![i] = g.lookups]
           /\ IF ~g.ok THEN
                   /\ pc' = [pc EXCEPT ![i] = "done"]
                   /\ call' = [call EXCEPT ![i] = Call(tool, a, "", <<>>, 0, 1)]
                   /\ outcome' = [outcome EXCEPT ![i] = Raised(g.exc)]
                   /\ UNCHANGED <<auth, http, created, sent>>
              ELSE
                   LET body == ToolBody(tool, a)
                       c == Call(tool, a, body.op, body.args, 1, 1)
                   IN  /\ auth' = [auth EXCEPT ![i] = g.manager]
                       /\ IF body.raises
                          THEN Advance(i, c, [h |-> g.h, sent |-> <<>>,
                                              out |-> Raised(body.exc)])
                          ELSE Advance(i, c, OpStart(g.manager, g.h, body.op,
                                                     body.args))
    /\ received' = [received EXCEPT ![i] = <<>>]
    /\ UNCHANGED <<smgr, sreq, oauth, apps_built, otask, env, context>>

\* The upstream answers the request an invocation awaits.
Respond(i, resp) ==
    /\ pc[i] = "awaiting"
    /\ LET c == call[i]
           h == [http |-> http[i], created |-> created[i]]
       IN  Advance(i, [c EXCEPT !.step = @ + 1],
                   OpResume(auth[i], h, c.op, c.args, c.step, resp))
    /\ received' = [received EXCEPT ![i] = Append(@, resp)]
    /\ UNCHANGED <<smgr, sreq, oauth, apps_built, otask, env, context, lookups, auth>>

Init ==
    /\ env \in Envs
    /\ context \in Contexts
    /\ auth = [i \in ToolInvocations |-> NoManager]
    /\ pc = [i \in ToolInvocations |-> "idle"]
    /\ call = [i \in ToolInvocations |-> NoCall]
    /\ http = [i \in ToolInvocations |-> "none"]
    /\ created = [i \in ToolInvocations |-> 0]
    /\ sent = [i \in ToolInvocations |-> <<>>]
    /\ received = [i \in ToolInvocations |-> <<>>]
    /\ outcome = [i \in ToolInvocations |-> NoOutcome]
    /\ lookups = [i \in ToolInvocations |-> <<>>]
    /\ oauth = Handler
    /\ apps_built = 0
    /\ otask = [t \in OTasks |-> IdleTask]
    /\ smgr = SessionManager
    /\ sreq = [r \in SRequests |-> NoRequest]

Next ==
    \/ \E i \in DOMAIN pc, tc \in ToolCalls : Invoke(i, tc[1], tc[2])
    \/ \E i \in DOMAIN pc, resp \in Responses : Respond(i, resp)

Spec == Init /\ [][Next]_vars

----------------------------------------------------------------------------
(* The client and the signer used directly, over any AuthManager state *)

\* client.<op>(...) is called on a client that is not inside a call.
ClientCall(i, op, a) ==
    /\ pc[i] = "ready"
    /\ call[i].n < MaxCalls
    /\ LET h == [http |-> http[i], created |-> created[i]]
       IN  Advance(i, Call("", <<>>, op, a, 1, call[i].n + 1),
                   OpStart(auth[i], h, op, a))
    /\ received' = [received EXCEPT ![i] = <<>>]
    /\ UNCHANGED <<smgr, sreq, oauth, apps_built, otask, env, context, lookups, auth>>

\* await client.close()
ClientClose(i) ==
    /\ pc[i] = "ready"
    /\ LET h == close([http |-> http[i], created |-> created[i]])
       IN  /\ http' = [http EXCEPT ![i] = h.http]
           /\ created' = [created EXCEPT ![i] = h.created]
    /\ UNCHANGED <<smgr, sreq, oauth, apps_built, otask, env, context, lookups, auth, pc, call, sent, received, outcome>>

\* Variant: get_headers_async, finding no PAT but a full OAuth configuration,
\* keeps a token it fetched in _oauth_token.
AuthManager_after_token_stored(fn, m) ==
    IF /\ fn = "get_headers_async"
       /\ ~TruthySeq(m.config.pat)
       /\ TruthyStr(m.config.oauth_client_id)
    THEN [m EXCEPT !.oauth_token = Some(TOKEN)]
    ELSE m

\* The manager after one of its methods has run: get_headers,
\* get_headers_async and has_valid_credentials read config and _oauth_token
\* and assign neither.
AuthManager_after(fn, m) == m

\* One of the signer's methods is called on the manager: fn names it.
SignerResult(fn, m) ==
    IF fn = "get_headers" THEN get_headers(m)
    ELSE IF fn = "get_headers_async" THEN get_headers_async(m)
    ELSE Returned(has_valid_credentials(m))

SignerCall(i, fn) ==
    /\ pc[i] = "ready"
    /\ call' = [call EXCEPT ![i] = Call("", <<>>, fn, <<>>, 0, @.n)]
    /\ outcome' = [outcome EXCEPT ![i] = SignerResult(fn, auth[i])]
    /\ sent' = [sent EXCEPT ![i] = <<>>]
    /\ received' = [received EXCEPT ![i] = <<>>]
    /\ auth' = [auth EXCEPT ![i] = AuthManager_after(fn, @)]
    /\ UNCHANGED <<smgr, sreq, oauth, apps_built, otask, env, context, lookups, pc, http, created>>

InitClient ==
    /\ env = EmptyEnv
    /\ context = NoContext
    /\ auth \in [Clients -> Managers]
    /\ pc = [i \in Clients |-> "ready"]
    /\ call = [i \in Clients |-> NoCall]
    /\ http = [i \in Clients |-> "none"]
    /\ created = [i \in Clients |-> 0]
    /\ sent = [i \in Clients |-> <<>>]
    /\ received = [i \in Clients |-> <<>>]
    /\ outcome = [i \in Clients |-> NoOutcome]
    /\ lookups = [i \in Clients |-> <<>>]
    /\ oauth = Handler
    /\ apps_built = 0
    /\ otask = [t \in OTasks |-> IdleTask]
    /\ smgr = SessionManager
    /\ sreq = [r \in SRequests |-> NoRequest]

NextClient ==
    \/ \E i \in DOMAIN pc, cc \in ClientCalls : ClientCall(i, cc[1], cc[2])
    \/ \E i \in DOMAIN pc, resp \in Responses : Respond(i, resp)
    \/ \E i \in DOMAIN pc : ClientClose(i)
    \/ \E i \in DOMAIN pc,
          fn \in {"get_headers", "get_headers_async", "has_valid_credentials"} :
          SignerCall(i, fn)

SpecClient == InitClient /\ [][NextClient]_vars

\* The configurations an AuthManager may be handed explicitly.
ManagerConfigs == { m.config : m \in Managers }

\* AuthManager(config, context) is constructed: with a config it is taken as
\* it is, without one it is read from the environment and the context, and a
\* failure of that reading leaves no manager.
Construct(i, config) ==
    /\ pc[i] = "new"
    /\ LET mk == IF config # None
                 THEN [ok |-> TRUE, exc |-> Exc("", <<>>, None),
                       lookups |-> <<>>,
                       manager |-> AuthManager_init_config(Val(config))]
                 ELSE AuthManager_init(env, context)
       IN  /\ call' = [call EXCEPT ![i] = Call("", <<>>, "__init__", <<>>, 0, @.n)]
           /\ lookups' = [lookups EXCEPT ![i] = mk.lookups]
           /\ IF mk.ok
              THEN /\ auth' = [auth EXCEPT ![i] = mk.manager]
                   /\ pc' = [pc EXCEPT ![i] = "ready"]
                   /\ outcome' = [outcome EXCEPT ![i] = Returned(None)]
              ELSE /\ outcome' = [outcome EXCEPT ![i] = Raised(mk.exc)]
                   /\ UNCHANGED <<auth, pc>>
    /\ UNCHANGED <<smgr, sreq, oauth, apps_built, otask, env, context, http, created, sent, received>>

\* No manager yet, under any environment and any context.
InitManager ==
    /\ env \in Envs
    /\ context \in Contexts
    /\ auth = [i \in Clients |-> NoManager]
    /\ pc = [i \in Clients |-> "new"]
    /\ call = [i \in Clients |-> NoCall]
    /\ http = [i \in Clients |-> "none"]
    /\ created = [i \in Clients |-> 0]
    /\ sent = [i \in Clients |-> <<>>]
    /\ received = [i \in Clients |-> <<>>]
    /\ outcome = [i \in Clients |-> NoOutcome]
    /\ lookups = [i \in Clients |-> <<>>]
    /\ oauth = Handler
    /\ apps_built = 0
    /\ otask = [t \in OTasks |-> IdleTask]
    /\ smgr = SessionManager
    /\ sreq = [r \in SRequests |-> NoRequest]

NextManager ==
    \/ \E i \in DOMAIN pc, config \in {None} \cup {Some(c) : c \in ManagerConfigs} :
          Construct(i, config)
    \/ \E i \in DOMAIN pc,
          fn \in {"get_headers", "get_headers_async", "has_valid_credentials"} :
          SignerCall(i, fn)

SpecManager == InitManager /\ [][NextManager]_vars

----------------------------------------------------------------------------
(* The program used either way: through a tool or through a client object *)

InitAll == Init \/ InitClient

NextAll == Next \/ NextClient

SpecAll == InitAll /\ [][NextAll]_vars

----------------------------------------------------------------------------
(* Two tool invocations running concurrently in one process *)

TwoInvocations == {"t1", "t2"}

TwoEnvs == {e \in Envs : /\ e.AZURE_DEVOPS_ORG = Some("contoso")
                         /\ e.AZURE_DEVOPS_PAT \in {None, Some(PAT_ABC123)}
                         /\ e.AZURE_AD_CLIENT_ID = None}

TwoCalls ==
    {tc \in ToolCalls :
        \/ tc[1] \in {"list_teams", "get_project", "create_work_item"}
        \/ /\ tc[1] = "update_work_item"
           /\ tc[2].title = None /\ tc[2].priority = None }

InitTwo ==
    /\ env \in TwoEnvs
    /\ context \in {NoContext,
                    [present |-> TRUE, raises |-> {}, org |-> Some("fabrikam"),
                     pat |-> Some(PAT_CTX)]}
    /\ auth = [i \in TwoInvocations |-> NoManager]
    /\ pc = [i \in TwoInvocations |-> "idle"]
    /\ call = [i \in TwoInvocations |-> NoCall]
    /\ http = [i \in TwoInvocations |-> "none"]
    /\ created = [i \in TwoInvocations |-> 0]
    /\ sent = [i \in TwoInvocations |-> <<>>]
    /\ received = [i \in TwoInvocations |-> <<>>]
    /\ outcome = [i \in TwoInvocations |-> NoOutcome]
    /\ lookups = [i \in TwoInvocations |-> <<>>]
    /\ oauth = Handler
    /\ apps_built = 0
    /\ otask = [t \in OTasks |-> IdleTask]
    /\ smgr = SessionManager
    /\ sreq = [r \in SRequests |-> NoRequest]

NextTwo ==
    \/ \E i \in DOMAIN pc, tc \in TwoCalls : Invoke(i, tc[1], tc[2])
    \/ \E i \in DOMAIN pc, resp \in Responses : Respond(i, resp)

SpecTwo == InitTwo /\ [][NextTwo]_vars

----------------------------------------------------------------------------
(* The OAuthHandler used by tasks of one event loop *)

\* A task calls get_access_token and runs it up to its await.
StartAcquire(t) ==
    /\ otask[t].pc = "idle"
    /\ otask[t].n < MaxOps
    /\ LET st == get_access_token_start(oauth, apps_built)
       IN  /\ oauth' = st.o
           /\ apps_built' = st.built
           /\ otask' = [otask EXCEPT ![t] =
                  OTask("acquiring", "get_access_token", @.n + 1, <<st.request>>,
                        NoResult, NoOutcome, <<>>)]
    /\ UNCHANGED <<toolVars, sessVars>>

\* The executor hands the provider's answer to the awaiting task, which runs
\* get_access_token to its end.
FinishAcquire(t, result) ==
    /\ otask[t].pc = "acquiring"
    /\ LET f == get_access_token_finish(oauth, result)
       IN  /\ oauth' = f.o
           /\ otask' = [otask EXCEPT ![t] =
                  OTask("idle", @.op, @.n, @.requests, result, f.ret, f.log)]
    /\ UNCHANGED <<apps_built, toolVars, sessVars>>

GetCachedToken(t) ==
    /\ otask[t].pc = "idle"
    /\ otask[t].n < MaxOps
    /\ otask' = [otask EXCEPT ![t] =
           OTask("idle", "get_cached_token", @.n + 1, <<>>, NoResult,
                 Returned(get_cached_token(oauth)), <<>>)]
    /\ UNCHANGED <<oauth, apps_built, toolVars, sessVars>>

ClearCache(t) ==
    /\ otask[t].pc = "idle"
    /\ otask[t].n < MaxOps
    /\ oauth' = clear_cache(oauth)
    /\ otask' = [otask EXCEPT ![t] =
           OTask("idle", "clear_cache", @.n + 1, <<>>, NoResult, Returned(None),
                 <<>>)]
    /\ UNCHANGED <<apps_built, toolVars, sessVars>>

InitOAuth ==
    /\ env = EmptyEnv
    /\ context = NoContext
    /\ auth = [i \in {} |-> NoManager]
    /\ pc = [i \in {} |-> "idle"]
    /\ call = [i \in {} |-> NoCall]
    /\ http = [i \in {} |-> "none"]
    /\ created = [i \in {} |-> 0]
    /\ sent = [i \in {} |-> <<>>]
    /\ received = [i \in {} |-> <<>>]
    /\ outcome = [i \in {} |-> NoOutcome]
    /\ lookups = [i \in {} |-> <<>>]
    /\ oauth = Handler
    /\ apps_built = 0
    /\ otask = [t \in OTasks |-> IdleTask]
    /\ smgr = SessionManager
    /\ sreq = [r \in SRequests |-> NoRequest]

NextOAuth ==
    \/ \E t \in OTasks : StartAcquire(t)
    \/ \E t \in OTasks, result \in ProviderResults : FinishAcquire(t, result)
    \/ \E t \in OTasks : GetCachedToken(t)
    \/ \E t \in OTasks : ClearCache(t)

SpecOAuth == InitOAuth /\ [][NextOAuth]_vars

\* A stateful request arrives: the handler reads the Mcp-Session-Id header
\* and either hands the request to the registered transport or goes on to
\* wait for the session creation lock.
Arrive(r, header) ==
    /\ sreq[r].pc = "idle"
    /\ LET path == handle_stateful_route(header, smgr.server_instances) IN
       sreq' = [sreq EXCEPT ![r] =
                   IF path = "existing"
                   THEN SRequest("handling", header, path, Val(header), <<>>,
                                 "none")
                   ELSE SRequest("lock", header, path, "", <<>>, "none")]
    /\ UNCHANGED <<smgr, toolVars, oauthVars>>

\* The handler enters the session creation lock, creates and registers the
\* transport, and asks the task group to start the server task.  Without a
\* task group it raises RuntimeError, which leaves the lock.
CreateTransport(r) ==
    /\ sreq[r].pc = "lock"
    /\ smgr.lock = ""
    /\ LET m == new_transport(smgr)
           id == uuid4_hex(smgr.made + 1)
       IN  IF m.task_group
           THEN /\ smgr' = [m EXCEPT !.lock = r]
                /\ sreq' = [sreq EXCEPT ![r].pc = "start",
                                        ![r].created = Append(@, id)]
           ELSE /\ smgr' = m
                /\ sreq' = [sreq EXCEPT ![r].pc = "done",
                                        ![r].created = Append(@, id),
                                        ![r].outcome = "RuntimeError"]
    /\ UNCHANGED <<toolVars, oauthVars>>

\* task_group.start(run_server) returns once the server task has connected
\* the transport; the handler, still in the lock, hands the request to the
\* transport it created.
StartServer(r) ==
    /\ sreq[r].pc = "start"
    /\ LET id == sreq[r].created[Len(sreq[r].created)] IN
       /\ smgr' = [smgr EXCEPT !.transports[id].state = "running"]
       /\ sreq' = [sreq EXCEPT ![r].pc = "handling", ![r].transport = id]
    /\ UNCHANGED <<toolVars, oauthVars>>

\* transport.handle_request returns: the request is answered by the
\* transport, which a DELETE request terminates; a handler in the lock
\* leaves it.
Handled(r, terminate) ==
    /\ sreq[r].pc = "handling"
    /\ LET id == sreq[r].transport IN
       smgr' = [smgr EXCEPT
                   !.transports[id].is_terminated = @ \/ terminate,
                   !.lock = IF @ = r THEN "" ELSE @]
    /\ sreq' = [sreq EXCEPT ![r].pc = "done", ![r].outcome = "handled"]
    /\ UNCHANGED <<toolVars, oauthVars>>

\* The server task of a session ends, by a crash or by the end of
\* session.run(): run_server's finally clause takes the transport out of the
\* registry unless the session was terminated.
SessionEnds(id) ==
    /\ id \in DOMAIN smgr.transports
    /\ smgr.transports[id].state = "running"
    /\ smgr' = [smgr EXCEPT
                   !.transports[id].state = "ended",
                   !.server_instances =
                       IF id \in @ /\ ~smgr.transports[id].is_terminated
                       THEN @ \ {id}
                       ELSE @]
    /\ UNCHANGED <<sreq, toolVars, oauthVars>>

NextSession ==
    \/ \E r \in SRequests, header \in SessionHeaders(DOMAIN smgr.transports) :
            Arrive(r, header)
    \/ \E r \in SRequests : CreateTransport(r)
    \/ \E r \in SRequests : StartServer(r)
    \/ \E r \in SRequests, terminate \in BOOLEAN : Handled(r, terminate)
    \/ \E n \in 1..Len(SessionIds) : SessionEnds(SessionIds[n])

\* No tool invocation, no client and no OAuth task: only the session manager.
InitSession == InitOAuth

SpecSession == InitSession /\ [][NextSession]_vars

----------------------------------------------------------------------------
(* Properties *)

Last(q) == q[Len(q)]
Contains(msg, part) == \E k \in 1..Len(msg) : msg[k] = part

\* A call has ended: a tool invocation is done, or a client call has returned
\* or raised and the client is ready again.
Ended(i) == pc[i] = "done" \/ (pc[i] = "ready" /\ outcome[i].kind # "none")

RequestOps ==
    {"list_projects", "get_project", "list_teams", "create_work_item",
     "update_work_item",
     "create_branch", "create_or_update_wiki_page", "_request"}

\* base64 of ":" + PAT as Python computes it, for the PATs the model draws.
KnownBasic(pat) ==
    CASE pat = <<97>> -> <<79, 109, 69, 61>>                         \* OmE=
      [] pat = <<97, 98>> -> <<79, 109, 70, 105>>                    \* OmFi
      [] pat = PAT_ABC123 ->
            <<79, 109, 70, 105, 89, 122, 69, 121, 77, 119, 61, 61>>  \* OmFiYzEyMw==
      [] pat = <<233, 63>> -> <<79, 115, 79, 112, 80, 119, 61, 61>>  \* OsOpPw==
      [] OTHER -> <<>>

\* C1: whenever the manager's PAT is set (non-empty), get_headers and
\* get_headers_async both return exactly Authorization: Basic
\* base64(":" + PAT), whether or not OAuth fields are configured and whether
\* or not a token sits in _oauth_token.
C1_PatPriority ==
    \A i \in DOMAIN pc :
        (call[i].op \in {"get_headers", "get_headers_async"}
         /\ TruthySeq(auth[i].config.pat))
        => /\ outcome[i].kind = "return"
           /\ DOMAIN outcome[i].value = {"Authorization"}
           /\ outcome[i].value["Authorization"]
                = <<"Basic", KnownBasic(Val(auth[i].config.pat))>>

C1_Witness ==
    \E i \in DOMAIN pc :
        /\ call[i].op = "get_headers"
        /\ auth[i].config.pat = Some(PAT_ABC123)
        /\ auth[i].oauth_token = Some(TOKEN)
        /\ auth[i].config.oauth_client_id # None
        /\ outcome[i].kind = "return"

\* The organization is absent or empty in the environment, and the context is
\* absent, raises for it, or returns nothing (None or empty) for it.
OrgUnresolvable ==
    /\ env.AZURE_DEVOPS_ORG \in {None, Some("")}
    /\ \/ ~context.present
       \/ "AZURE_DEVOPS_ORG" \in context.raises
       \/ context.org \in {None, Some("")}

\* C2: when the organization cannot be resolved, the tool invocation ends in
\* the organization-missing error raised by AuthManager construction, with no
\* HTTP client ever created and no request ever sent.
C2_OrgMissingFails ==
    \A i \in DOMAIN pc :
        OrgUnresolvable
        => /\ pc[i] \in {"idle", "done"}
           /\ created[i] = 0 /\ http[i] = "none" /\ sent[i] = <<>>
           /\ pc[i] = "done"
              => outcome[i] = Raised(Exc("AuthenticationError", <<ORG_NOT_FOUND>>, None))

C2_Witness ==
    \E i \in DOMAIN pc :
        /\ pc[i] = "done"
        /\ env.AZURE_DEVOPS_ORG = Some("")
        /\ context.present /\ "AZURE_DEVOPS_ORG" \in context.raises
        /\ outcome[i].kind = "raise" /\ outcome[i].exc.msg = <<ORG_NOT_FOUND>>

\* The organization the environment or, failing that, the context supplies.
ResolvedOrg ==
    IF env.AZURE_DEVOPS_ORG \notin {None, Some("")} THEN env.AZURE_DEVOPS_ORG
    ELSE context.org

\* C3: when the organization resolves, construction succeeds whatever the PAT:
\* the manager holds the resolved organization, and with the PAT unset the
\* invocation fails only later - at header generation inside the first request
\* (the HTTP client already obtained, nothing sent) or, for a tool that sends
\* no request, at its own validation.
C3_PatAbsentNotFatal ==
    \A i \in DOMAIN pc :
        (~OrgUnresolvable /\ pc[i] # "idle")
        => /\ auth[i].config.organization = Val(ResolvedOrg)
           /\ outcome[i] # Raised(Exc("AuthenticationError", <<ORG_NOT_FOUND>>, None))
           /\ ~TruthySeq(auth[i].config.pat)
              => /\ pc[i] = "done" /\ sent[i] = <<>>
                 /\ \/ /\ created[i] = 1
                       /\ outcome[i] = Raised(Exc("AuthenticationError",
                                                   <<NO_CREDENTIALS>>, None))
                    \/ /\ created[i] = 0
                       /\ outcome[i] = Raised(RuntimeError(
                                          <<"No fields provided to update">>))

C3_Witness ==
    \E i \in DOMAIN pc :
        /\ pc[i] = "done"
        /\ env.AZURE_DEVOPS_ORG = Some("contoso")
        /\ env.AZURE_DEVOPS_PAT = None
        /\ auth[i].config.organization = "contoso"
        /\ auth[i].config.pat = None
        /\ created[i] = 1
        /\ outcome[i].kind = "raise" /\ outcome[i].exc.msg = <<NO_CREDENTIALS>>

C6_AllFailuresRuntimeError ==
    \A i \in DOMAIN pc :
        (/\ pc[i] = "done" /\ outcome[i].kind = "raise"
         /\ \/ received[i] = <<>>
            \/ Last(received[i]).kind = "neterr"
            \/ ~(Last(received[i]).status \in 200..299))
        => outcome[i].exc.type = "RuntimeError"

\* C7: no tool invocation ends with an open HTTP client, however its body
\* ended.
C7_ClosedOnEveryExit ==
    \A i \in DOMAIN pc : pc[i] = "done" => http[i] # "open"

C7_Witness ==
    \E i \in DOMAIN pc :
        /\ pc[i] = "done"
        /\ created[i] = 1 /\ http[i] = "closed"
        /\ outcome[i].kind = "raise" /\ outcome[i].exc.type = "JSONDecodeError"

\* C8: a client operation that got a non-2xx answer ends in an
\* AzureDevOpsClientError whose status_code is the answer's status.
C8_Non2xxIsClientError ==
    \A i \in DOMAIN pc :
        (Ended(i) /\ pc[i] = "ready" /\ received[i] # <<>>
         /\ Last(received[i]).kind = "http"
         /\ ~(Last(received[i]).status \in 200..299))
        => /\ outcome[i].kind = "raise"
           /\ outcome[i].exc.type = "AzureDevOpsClientError"
           /\ outcome[i].exc.status = Some(Last(received[i]).status)

\* C9: the error _request raises for a non-2xx answer names the status, and
\* carries the upstream message when the body parses, the raw text otherwise:
\* always one of the two.
C9_MessageCarriesDetail ==
    \A i \in DOMAIN pc :
        (Ended(i) /\ pc[i] = "ready" /\ call[i].op \in RequestOps
         /\ received[i] # <<>>
         /\ Last(received[i]).kind = "http"
         /\ ~(Last(received[i]).status \in 200..299))
        => LET r == Last(received[i])
               msg == outcome[i].exc.msg
           IN  /\ Contains(msg, ToString(r.status))
               /\ r.body.json = "dict_message" => Contains(msg, r.body.message)
               /\ r.body.json = "invalid" => Contains(msg, r.body.text)
               /\ Contains(msg, r.body.message) \/ Contains(msg, r.body.text)

\* C10: a client operation whose request failed at the network level ends in
\* an AzureDevOpsClientError with no status_code.
C10_NetworkErrorIsClientError ==
    \A i \in DOMAIN pc :
        (Ended(i) /\ pc[i] = "ready" /\ received[i] # <<>>
         /\ Last(received[i]).kind = "neterr")
        => /\ outcome[i].kind = "raise"
           /\ outcome[i].exc.type = "AzureDevOpsClientError"
           /\ outcome[i].exc.status = None

\* C11: a tool whose client call ended in an AzureDevOpsClientError ends in a
\* RuntimeError whose message is the tool's own description followed by the
\* client error's message; no tool ends in an AzureDevOpsClientError.
C11_ClientErrorConverted ==
    \A i \in DOMAIN pc :
        pc[i] = "done" =>
            /\ outcome[i].kind = "raise"
                   => outcome[i].exc.type # "AzureDevOpsClientError"
            /\ received[i] # <<>> =>
                   LET e == request_receive(Last(received[i]))
                   IN  (e.kind = "raise" /\ e.exc.type = "AzureDevOpsClientError")
                       => LET msg == outcome[i].exc.msg
                              n == Len(msg) - Len(e.exc.msg)
                          IN  /\ outcome[i].kind = "raise"
                              /\ outcome[i].exc.type = "RuntimeError"
                              /\ n > 0
                              /\ SubSeq(msg, 1, n) = ToolPrefix(call[i].tool, call[i].targs)
                              /\ SubSeq(msg, n + 1, Len(msg)) = e.exc.msg

C11_Witness ==
    \E i \in DOMAIN pc :
        /\ pc[i] = "done" /\ call[i].tool = "search_code"
        /\ received[i] # <<>> /\ Last(received[i]).kind = "http"
        /\ Last(received[i]).status = 404
        /\ Last(received[i]).body.json = "dict_message"
        /\ outcome[i] = Raised(RuntimeError(
               <<"Failed to search code: ", "Azure DevOps API error: ", "404",
                 " - ", "TF401019: not found">>))

\* C12: create_branch whose reference lookup found no reference for the
\* source ends in the client error "Source branch '<ref>' not found", and the
\* lookup GET is the only request it sent; a write is sent only after a lookup
\* that found a reference.
C12_MissingSourceNoWrite ==
    \A i \in DOMAIN pc :
        (call[i].op = "create_branch" /\ received[i] # <<>>)
        => LET r == request_receive(received[i][1])
               found == r.kind = "return" /\ r.value # None
                        /\ Len(Val(r.value).refs) > 0
           IN  /\ (r.kind = "return" /\ r.value # None /\ ~found)
                  => /\ Ended(i)
                     /\ outcome[i] = Raised(AzureDevOpsClientError(
                            <<"Source branch '", call[i].args.source_ref,
                              "' not found">>, None))
                     /\ Len(sent[i]) = 1 /\ sent[i][1].method = "GET"
               /\ (\E k \in 1..Len(sent[i]) : sent[i][k].method = "POST") => found

C12_Witness ==
    \E i \in DOMAIN pc :
        /\ Ended(i) /\ call[i].op = "create_branch"
        /\ Len(received[i]) = 1 /\ received[i][1].kind = "http"
        /\ received[i][1].status = 200 /\ received[i][1].body.json = "dict"
        /\ received[i][1].body.refs = <<>>
        /\ outcome[i].kind = "raise"
        /\ outcome[i].exc.type = "AzureDevOpsClientError"
        /\ Len(sent[i]) = 1

\* C13: a client operation whose last answer was 204 No Content returns None
\* and raises nothing, whatever the body of that answer holds.
C13_NoContentIsNone ==
    \A i \in DOMAIN pc :
        (Ended(i) /\ pc[i] = "ready" /\ call[i].op \in RequestOps
         /\ received[i] # <<>>
         /\ Last(received[i]).kind = "http"
         /\ Last(received[i]).status = 204)
        => outcome[i] = Returned(None)

\* update_work_item was invoked with every optional field absent.
NoFieldSupplied(i) ==
    /\ call[i].tool = "update_work_item"
    /\ call[i].targs.title = None /\ call[i].targs.description = None
    /\ call[i].targs.assigned_to = None /\ call[i].targs.state = None
    /\ call[i].targs.priority = None

\* C14 as stated: update_work_item with every optional field absent ends in
\* RuntimeError("No fields provided to update") and sends no HTTP request.
C14_NoFieldsFailsValidation ==
    \A i \in DOMAIN pc :
        NoFieldSupplied(i)
        => /\ pc[i] = "done" /\ sent[i] = <<>> /\ received[i] = <<>>
           /\ outcome[i] = Raised(RuntimeError(<<"No fields provided to update">>))

\* C14 amended: update_work_item with every optional field absent sends no
\* HTTP request and creates no HTTP client; when the organization resolves it
\* ends in RuntimeError("No fields provided to update") whether or not a PAT is
\* configured, and when it does not resolve it ends in the organization-missing
\* error raised before the tool's body runs.
C14_NoFieldsNoRequest ==
    \A i \in DOMAIN pc :
        NoFieldSupplied(i)
        => /\ pc[i] = "done" /\ sent[i] = <<>> /\ received[i] = <<>>
           /\ created[i] = 0 /\ http[i] = "none"
           /\ ~OrgUnresolvable
              => outcome[i] = Raised(RuntimeError(<<"No fields provided to update">>))
           /\ OrgUnresolvable
              => outcome[i] = Raised(AuthenticationError(ORG_NOT_FOUND))

C14_Witness ==
    \E i \in DOMAIN pc :
        /\ NoFieldSupplied(i) /\ pc[i] = "done"
        /\ env.AZURE_DEVOPS_ORG = Some("contoso")
        /\ env.AZURE_DEVOPS_PAT = Some(PAT_ABC123)
        /\ outcome[i] = Raised(RuntimeError(<<"No fields provided to update">>))

\* C15: with AZURE_DEVOPS_ORG=contoso and AZURE_DEVOPS_PAT=abc123 in the
\* environment, list_projects with default arguments sends exactly one
\* request: GET https://dev.azure.com/contoso/_apis/projects with the query
\* parameters stateFilter=wellFormed and api-version=7.1 and the header
\* Authorization: Basic OmFiYzEyMw==.  Whatever the configuration, the url of
\* a list_projects request is the base URL with the resolved organization.
C15_ListProjectsRequest ==
    \A i \in DOMAIN pc :
        (call[i].tool = "list_projects" /\ pc[i] # "idle")
        => /\ (/\ env.AZURE_DEVOPS_ORG = Some("contoso")
               /\ env.AZURE_DEVOPS_PAT = Some(PAT_ABC123)
               /\ call[i].targs = [state_filter |-> "wellFormed", top |-> None,
                                   skip |-> None])
              => /\ Len(sent[i]) = 1
                 /\ sent[i][1].method = "GET"
                 /\ sent[i][1].url
                      = <<"https://dev.azure.com/", "contoso", "/_apis/projects">>
                 /\ sent[i][1].params
                      = ("stateFilter" :> "wellFormed") @@ ("api-version" :> "7.1")
                 /\ sent[i][1].headers["Authorization"]
                      = <<"Basic", KnownBasic(PAT_ABC123)>>
                 /\ sent[i][1].json = None
           /\ \A k \in 1..Len(sent[i]) :
                 sent[i][k].url
                   = <<"https://dev.azure.com/", Val(ResolvedOrg), "/_apis/projects">>

C15_Witness ==
    \E i \in DOMAIN pc :
        /\ pc[i] = "done" /\ call[i].tool = "list_projects"
        /\ call[i].targs.top = None /\ call[i].targs.skip = None
        /\ env.AZURE_DEVOPS_ORG = Some("contoso")
        /\ env.AZURE_DEVOPS_PAT = Some(PAT_ABC123)
        /\ Len(sent[i]) = 1 /\ Len(received[i]) = 1
        /\ outcome[i].kind = "return"

\* The context raised while invocation i asked it for a secret: the last key
\* asked is one the context raises for.
LookupRaised(i) ==
    lookups[i] # <<>> /\ Last(lookups[i]) \in context.raises

\* C16: when the context raised while asked for a field the environment lacks,
\* nothing of that exception leaves the resolution: asked for the
\* organization, the invocation ends in the organization-missing error; asked
\* for the PAT, it ends in that error too if the organization is unknown, and
\* otherwise the manager is built with the resolved organization and the PAT
\* as the environment left it (unset or empty).
C16_LookupFailureSwallowed ==
    \A i \in DOMAIN pc :
        LookupRaised(i)
        => /\ Last(lookups[i]) = "AZURE_DEVOPS_ORG" => OrgUnresolvable
           /\ OrgUnresolvable
              => /\ pc[i] = "done"
                 /\ outcome[i] = Raised(AuthenticationError(ORG_NOT_FOUND))
           /\ ~OrgUnresolvable
              => /\ auth[i].config.organization = Val(ResolvedOrg)
                 /\ auth[i].config.pat = env.AZURE_DEVOPS_PAT
                 /\ ~TruthySeq(auth[i].config.pat)
                 /\ outcome[i].kind = "raise"
                    => outcome[i].exc.type \in {"AuthenticationError", "RuntimeError",
                                                "JSONDecodeError"}

C16_Witness ==
    \E i \in DOMAIN pc :
        /\ pc[i] = "done"
        /\ env.AZURE_DEVOPS_ORG = Some("contoso") /\ env.AZURE_DEVOPS_PAT = None
        /\ lookups[i] = <<"AZURE_DEVOPS_PAT">>
        /\ "AZURE_DEVOPS_PAT" \in context.raises
        /\ auth[i].config.organization = "contoso" /\ auth[i].config.pat = None
        /\ outcome[i] = Raised(AuthenticationError(NO_CREDENTIALS))

\* C17: with AZURE_DEVOPS_ORG and AZURE_DEVOPS_PAT both non-empty in the
\* environment, the manager's configuration is exactly those two values and
\* the three OAuth values of the environment, and the context was never asked
\* for a secret.  In every case a field the environment holds is not asked of
\* the context and keeps the environment's value.
C17_EnvironmentWins ==
    \A i \in DOMAIN pc :
        pc[i] # "idle"
        => /\ (TruthyStr(env.AZURE_DEVOPS_ORG) /\ TruthySeq(env.AZURE_DEVOPS_PAT))
              => /\ lookups[i] = <<>>
                 /\ auth[i].config
                      = [organization |-> Val(env.AZURE_DEVOPS_ORG),
                         pat |-> env.AZURE_DEVOPS_PAT,
                         oauth_client_id |-> env.AZURE_AD_CLIENT_ID,
                         oauth_client_secret |-> env.AZURE_AD_CLIENT_SECRET,
                         oauth_tenant_id |-> env.AZURE_AD_TENANT_ID]
           /\ TruthyStr(env.AZURE_DEVOPS_ORG)
              => /\ ~Contains(lookups[i], "AZURE_DEVOPS_ORG")
                 /\ auth[i].config.organization = Val(env.AZURE_DEVOPS_ORG)
           /\ TruthySeq(env.AZURE_DEVOPS_PAT)
              => /\ ~Contains(lookups[i], "AZURE_DEVOPS_PAT")
                 /\ auth[i] # NoManager => auth[i].config.pat = env.AZURE_DEVOPS_PAT

C17_Witness ==
    \E i \in DOMAIN pc :
        /\ pc[i] = "done"
        /\ env.AZURE_DEVOPS_ORG = Some("contoso")
        /\ env.AZURE_DEVOPS_PAT = Some(PAT_ABC123)
        /\ env.AZURE_AD_CLIENT_ID = Some("client-id")
        /\ context.present /\ context.raises = {}
        /\ context.org = Some("fabrikam") /\ context.pat = Some(PAT_CTX)
        /\ lookups[i] = <<>>
        /\ auth[i].config.organization = "contoso"
        /\ auth[i].config.pat = Some(PAT_ABC123)
        /\ auth[i].config.oauth_client_id = Some("client-id")

\* C18: with no PAT (unset or empty) and a token in _oauth_token, get_headers
\* returns exactly Authorization: Bearer <that token>; it sends nothing and
\* leaves the token as it was.
C18_SyncBearerFallback ==
    \A i \in DOMAIN pc :
        (call[i].op = "get_headers" /\ ~TruthySeq(auth[i].config.pat)
         /\ TruthySeq(auth[i].oauth_token))
        => /\ outcome[i].kind = "return"
           /\ DOMAIN outcome[i].value = {"Authorization"}
           /\ outcome[i].value["Authorization"]
                = <<"Bearer", Val(auth[i].oauth_token)>>
           /\ sent[i] = <<>> /\ pc[i] = "ready"

C18_Witness ==
    \E i \in DOMAIN pc :
        /\ call[i].op = "get_headers"
        /\ auth[i].config.pat = Some(<<>>) /\ auth[i].oauth_token = Some(TOKEN)
        /\ outcome[i] = Returned(Bearer(TOKEN))

\* Task t starts a call of the handler method op in this step.
Called(t, op) == otask'[t].n = otask[t].n + 1 /\ otask'[t].op = op

\* Task t's get_access_token gets its answer and ends in this step.
Finishing(t) == otask[t].pc = "acquiring" /\ otask'[t].pc = "idle"

TokenIn(result) == result.kind = "dict" /\ result.access_token # None

\* C19: a get_access_token call whose provider result holds an access token
\* stores that token in the cache and returns it; one whose result holds none
\* (error result, empty result, None) returns None, raises nothing and leaves
\* the handler as it was; either way the call made exactly one token request.
C19_AcquireResult ==
    [][\A t \in OTasks :
          Finishing(t)
          => LET r == otask'[t].result
             IN  /\ TokenIn(r)
                    => /\ oauth'.cached_token = r.access_token
                       /\ otask'[t].ret = Returned(r.access_token)
                 /\ (r.kind \in {"dict", "none"} /\ ~TokenIn(r))
                    => /\ otask'[t].ret = Returned(None)
                       /\ oauth' = oauth
                 /\ Len(otask'[t].requests) = 1
                 /\ otask'[t].requests = otask[t].requests]_vars

C19_Witness ==
    /\ otask["a1"].op = "get_access_token" /\ otask["a1"].pc = "idle"
    /\ otask["a1"].ret = Returned(Some(TOKEN))
    /\ otask["a2"].op = "get_access_token" /\ otask["a2"].pc = "idle"
    /\ otask["a2"].result.error = Some("invalid_client")
    /\ otask["a2"].ret = Returned(None)
    /\ otask["a2"].log # <<>>
    /\ oauth.cached_token = Some(TOKEN)

\* C20: the cached token changes only when clear_cache runs (to None) or when
\* a get_access_token call succeeds (to the token it returns); a call that
\* ends without a token leaves it; get_cached_token returns it and changes
\* nothing; clear_cache leaves no token and no application object, so the
\* next get_access_token constructs a new application and uses it.
C20_CacheInvalidation ==
    [][/\ oauth'.cached_token # oauth.cached_token
          => \/ \E t \in OTasks :
                   Called(t, "clear_cache") /\ oauth'.cached_token = None
             \/ \E t \in OTasks :
                   /\ Finishing(t) /\ oauth'.cached_token # None
                   /\ otask'[t].ret = Returned(oauth'.cached_token)
       /\ \A t \in OTasks :
             /\ (Finishing(t) /\ ~TokenIn(otask'[t].result))
                => oauth'.cached_token = oauth.cached_token
             /\ Called(t, "get_cached_token")
                => /\ otask'[t].ret = Returned(oauth.cached_token)
                   /\ oauth' = oauth
             /\ Called(t, "clear_cache")
                => oauth'.cached_token = None /\ oauth'.app = None
             /\ Called(t, "get_access_token")
                => IF oauth.app = None
                   THEN /\ apps_built' = apps_built + 1
                        /\ oauth'.app # None
                        /\ Val(oauth'.app).id = apps_built'
                        /\ otask'[t].requests[1].app = apps_built'
                   ELSE /\ apps_built' = apps_built
                        /\ oauth'.app = oauth.app
                        /\ otask'[t].requests[1].app = Val(oauth.app).id]_vars

C20_Witness ==
    /\ otask["a1"].op = "clear_cache" /\ otask["a1"].n = 2
    /\ otask["a2"].op = "get_access_token" /\ otask["a2"].pc = "idle"
    /\ otask["a2"].requests[1].app = 2
    /\ apps_built = 2
    /\ otask["a2"].ret = Returned(Some(TOKEN2))
    /\ oauth.cached_token = Some(TOKEN2)

\* C21: every request handed to httpx carries an api-version query
\* parameter: the one the caller of _request put into params if there is one,
\* and 7.1 otherwise - also for get_build_log, which does not use _request.
C21_ApiVersionOnEveryRequest ==
    \A i \in DOMAIN pc : \A k \in 1..Len(sent[i]) :
        /\ "api-version" \in DOMAIN sent[i][k].params
        /\ sent[i][k].params["api-version"]
             = IF call[i].op = "_request"
                  /\ "api-version" \in DOMAIN call[i].args.params
               THEN call[i].args.params["api-version"]
               ELSE "7.1"

C21_Witness ==
    \E i \in DOMAIN pc :
        /\ call[i].op = "get_build_log" /\ Len(sent[i]) = 1
        /\ sent[i][1].params = ("startLine" :> 10) @@ ("api-version" :> "7.1")

\* A request of an operation that goes through _request.
ViaRequest(i) == call[i].op \in RequestOps \cup {"search_code"}

\* C22: among the requests sent through _request, Content-Type is
\* application/json-patch+json for create_work_item and update_work_item and
\* application/json for all others; every header the operation names is sent
\* with the operation's value; Authorization is the signer's.
C22_ContentTypeAndOverrides ==
    \A i \in DOMAIN pc : \A k \in 1..Len(sent[i]) :
        ViaRequest(i)
        => LET hs == sent[i][k].headers
               own == OpRequest(auth[i], call[i].op, call[i].args).headers
           IN  /\ hs["Content-Type"]
                    = IF call[i].op \in {"create_work_item", "update_work_item"}
                      THEN "application/json-patch+json" ELSE "application/json"
               /\ \A name \in DOMAIN own : hs[name] = own[name]
               /\ DOMAIN hs = {"Authorization", "Content-Type", "Accept"}
                                \cup DOMAIN own
               /\ "Accept" \notin DOMAIN own => hs["Accept"] = "application/json"
               /\ hs["Authorization"]
                    = <<"Basic", KnownBasic(Val(auth[i].config.pat))>>

C22_Witness ==
    \E i \in DOMAIN pc :
        /\ call[i].op = "update_work_item" /\ Len(sent[i]) = 1
        /\ auth[i].config.pat = Some(PAT_ABC123)
        /\ sent[i][1].headers
             = ("Authorization" :> <<"Basic", KnownBasic(PAT_ABC123)>>)
               @@ ("Content-Type" :> "application/json-patch+json")
               @@ ("Accept" :> "application/json")

\* C23: a list_projects request carries $top and $skip equal to the values
\* the caller supplied, and lacks each of them only when the caller supplied
\* none.
C23_PaginationVerbatim ==
    \A i \in DOMAIN pc : \A k \in 1..Len(sent[i]) :
        call[i].tool = "list_projects"
        => LET ps == sent[i][k].params
               a == call[i].targs
           IN  /\ a.top # None <=> "$top" \in DOMAIN ps
               /\ a.skip # None <=> "$skip" \in DOMAIN ps
               /\ a.top # None => ps["$top"] = Val(a.top)
               /\ a.skip # None => ps["$skip"] = Val(a.skip)

\* The operations of the client that send HTTP requests.
ClientOps == RequestOps \cup {"search_code", "get_build_log"}

IsWrite(request) == request.method \in {"POST", "PUT", "PATCH", "DELETE"}

Writes(q) == {k \in 1..Len(q) : IsWrite(q[k])}

\* The last answer the call of i got was a failure.
LastFailed(i) ==
    /\ received[i] # <<>>
    /\ \/ Last(received[i]).kind = "neterr"
       \/ ~IsSuccess(Last(received[i]).status)

\* C24 as stated: a finished call of a client operation other than
\* create_branch has sent exactly one request; create_branch at most two, a
\* read and then at most one write; a tool invocation has sent at most one
\* write; after a failed answer nothing more is sent.
C24_ExactlyOneRequest ==
    \A i \in DOMAIN pc :
        /\ (Ended(i) /\ call[i].op \in ClientOps \ {"create_branch"})
           => Len(sent[i]) = 1
        /\ call[i].op = "create_branch"
           => /\ Len(sent[i]) <= 2
              /\ Writes(sent[i]) \subseteq {2}
        /\ call[i].tool # "" => Cardinality(Writes(sent[i])) <= 1
        /\ LastFailed(i) => Ended(i) /\ Len(sent[i]) = Len(received[i])

\* C24 amended: a call of a client operation other than create_branch sends
\* at most one request - exactly one when the signer produced headers, none
\* when it raised; create_branch at most two, a read and then at most one
\* write; a tool invocation runs at most one client operation and sends at
\* most one write; every request gets at most one answer, and after a failed
\* answer the call has ended with nothing more sent.
C24_NoRetryOneWrite ==
    \A i \in DOMAIN pc :
        /\ call[i].op \in ClientOps \ {"create_branch"}
           => /\ Len(sent[i]) <= 1
              /\ Ended(i) => (Len(sent[i]) = 1 <=> TruthySeq(auth[i].config.pat))
        /\ call[i].op = "create_branch"
           => /\ Len(sent[i]) <= 2
              /\ Writes(sent[i]) \subseteq {2}
              /\ Ended(i) => (Len(sent[i]) >= 1 <=> TruthySeq(auth[i].config.pat))
        /\ call[i].op \notin ClientOps => sent[i] = <<>>
        /\ call[i].tool # ""
           => /\ call[i].n = 1
              /\ Len(sent[i]) <= 1
              /\ Cardinality(Writes(sent[i])) <= 1
        /\ Len(received[i]) <= Len(sent[i])
        /\ LastFailed(i) => Ended(i) /\ Len(sent[i]) = Len(received[i])

C24_Witness ==
    \E i \in DOMAIN pc :
        /\ pc[i] = "done" /\ call[i].tool = "create_work_item"
        /\ Len(sent[i]) = 1 /\ sent[i][1].method = "POST"
        /\ Len(received[i]) = 1 /\ received[i][1].kind = "http"
        /\ received[i][1].status = 500
        /\ outcome[i].kind = "raise" /\ outcome[i].exc.type = "RuntimeError"

\* C25: no HTTP client exists until the first request is prepared; one is
\* constructed only when there is none or the previous one is closed, so an
\* open one is reused by every later request; a tool invocation constructs at
\* most one.
C25_OneHttpClient ==
    /\ \A i \in DOMAIN pc : created[i] = 0 /\ http[i] = "none"
    /\ [][\A i \in DOMAIN pc :
             /\ created'[i] \in {created[i], created[i] + 1}
             /\ created'[i] = created[i] + 1
                => /\ http[i] \in {"none", "closed"}
                   /\ http'[i] \in {"open", "closed"}
                   /\ call'[i].op \in ClientOps
             /\ http[i] = "open" => created'[i] = created[i]
             /\ created'[i] = 0 <=> http'[i] = "none"
             /\ Len(sent'[i]) > 0 => created'[i] >= 1
             /\ i \in ToolInvocations => created'[i] <= 1]_vars

C25_Witness ==
    \E i \in ToolInvocations \cap DOMAIN pc :
        /\ pc[i] = "done" /\ call[i].tool = "get_project"
        /\ Len(sent[i]) = 1 /\ Len(received[i]) = 1
        /\ created[i] = 1 /\ http[i] = "closed"
        /\ outcome[i].kind = "return"

\* Everything invocation i owns: its AuthManager, its client and its call.
Own(i) ==
    <<auth[i], pc[i], call[i], http[i], created[i], sent[i], received[i],
      outcome[i], lookups[i]>>

\* C26: a step of one invocation - its start, an answer, its close - leaves
\* everything the other invocation owns as it was, in particular an open HTTP
\* client stays open and the credentials stay the same; the environment is
\* never written; and two invocations of the same tool with the same arguments
\* that got the same answers end in the same result, whatever the other did
\* in between.
C26_InvocationsIndependent ==
    /\ [][/\ \A i, j \in DOMAIN pc :
                (i # j /\ Own(i)' # Own(i)) => Own(j)' = Own(j)
          /\ env' = env /\ context' = context]_vars
    /\ [](\A i, j \in DOMAIN pc :
             (/\ pc[i] = "done" /\ pc[j] = "done"
              /\ call[i].tool = call[j].tool /\ call[i].targs = call[j].targs
              /\ received[i] = received[j])
             => /\ outcome[i] = outcome[j]
                /\ auth[i] = auth[j] /\ sent[i] = sent[j]
                /\ created[i] = created[j] /\ http[i] = http[j])

C26_Witness ==
    /\ pc["t1"] = "done" /\ pc["t2"] = "awaiting"
    /\ call["t1"].tool = "list_teams" /\ call["t2"].tool = "list_teams"
    /\ http["t1"] = "closed" /\ http["t2"] = "open"
    /\ outcome["t1"].kind = "return"

\* Every call made on the handler so far is a first get_access_token of its
\* task: the cache was empty when the first of them started and nothing
\* cleared it.
FirstAcquisitions ==
    \A t \in OTasks : otask[t].n = 0 \/ (otask[t].n = 1 /\ otask[t].op = "get_access_token")

\* The tokens the completed calls returned.
ReturnedTokens ==
    {otask[t].ret.value : t \in {u \in OTasks : /\ otask[u].pc = "idle"
                                                /\ otask[u].op = "get_access_token"
                                                /\ otask[u].ret.kind = "return"
                                                /\ otask[u].ret.value # None}}

\* C27: while the tasks make their first acquisitions concurrently, each
\* call in flight has its own token request and can be answered whatever the
\* other does; a completed call returned what its own answer held; and the
\* cache holds a token one of the completed calls returned, or nothing when
\* none of them returned a token.
C27_ConcurrentFirstAcquisitions ==
    FirstAcquisitions
    => /\ \A t \in OTasks :
             /\ otask[t].pc = "acquiring"
                => /\ Len(otask[t].requests) = 1
                   /\ ENABLED (\E r \in ProviderResults : FinishAcquire(t, r))
             /\ (otask[t].pc = "idle" /\ otask[t].n = 1)
                => /\ Len(otask[t].requests) = 1
                   /\ otask[t].ret
                        = IF TokenIn(otask[t].result)
                          THEN Returned(otask[t].result.access_token)
                          ELSE IF otask[t].result.kind = "raise"
                          THEN Raised(Exc(otask[t].result.type,
                                          <<otask[t].result.detail>>, None))
                          ELSE Returned(None)
       /\ IF ReturnedTokens = {} THEN oauth.cached_token = None
          ELSE oauth.cached_token \in ReturnedTokens

C27_Witness ==
    /\ FirstAcquisitions
    /\ otask["a1"].pc = "idle" /\ otask["a2"].pc = "idle"
    /\ otask["a1"].requests # <<>> /\ otask["a2"].requests # <<>>
    /\ otask["a1"].ret = Returned(Some(TOKEN))
    /\ otask["a2"].ret = Returned(Some(TOKEN2))
    /\ oauth.cached_token = Some(TOKEN)
    /\ apps_built = 1

\* The header of a request names a session that is in the registry.
NamesRegistered(header) ==
    header # None /\ Val(header) # "" /\ Val(header) \in smgr.server_instances

\* C28: under the patched session manager a stateful request is never
\* rejected for its session id.  A request whose Mcp-Session-Id names a
\* registered session is handed to the registered transport and creates
\* none; a request with an absent, empty or unknown id creates exactly one
\* transport, under the creation lock, with an id that is new and differs
\* from the id it carried, registers it under that id before the request is
\* handled, and is handled by that transport while still in the lock.
C28_StaleSessionTolerated ==
    /\ [][\A r \in SRequests :
            LET before == sreq[r]
                after == sreq'[r]
            IN
            /\ (before.pc = "idle" /\ after.pc # "idle")
               => /\ smgr' = smgr
                  /\ after.created = <<>>
                  /\ IF NamesRegistered(after.header)
                     THEN /\ after.pc = "handling"
                          /\ after.transport = Val(after.header)
                     ELSE after.pc = "lock"
            /\ (before.pc = "lock" /\ after.pc # "lock")
               => /\ after.pc = "start"
                  /\ smgr.lock = ""
                  /\ smgr'.lock = r
                  /\ \E n \in 1..Len(SessionIds) :
                        LET id == SessionIds[n] IN
                        /\ after.created = <<id>>
                        /\ id \notin DOMAIN smgr.transports
                        /\ id \notin smgr.server_instances
                        /\ Some(id) # before.header
                        /\ smgr'.server_instances
                             = smgr.server_instances \cup {id}
                        /\ smgr'.transports[id].mcp_session_id = id
            /\ (before.pc = "start" /\ after.pc # "start")
               => /\ after.pc = "handling"
                  /\ after.created = before.created
                  /\ after.transport = before.created[1]
                  /\ before.created[1] \in smgr.server_instances
                  /\ smgr.lock = r
                  /\ smgr'.lock = r
            /\ (before.pc = "handling" /\ after.pc # "handling")
               => /\ after.pc = "done"
                  /\ after.outcome = "handled"
                  /\ after.transport = before.transport
                  /\ after.created = before.created
            /\ before.pc = "done" => after = before
        ]_vars
    /\ [](\A r \in SRequests :
            /\ sreq[r].pc = "done" => sreq[r].outcome = "handled"
            /\ sreq[r].pc \in {"handling", "done"}
               => \/ /\ sreq[r].created = <<>>
                     /\ Some(sreq[r].transport) = sreq[r].header
                  \/ /\ Len(sreq[r].created) = 1
                     /\ sreq[r].transport = sreq[r].created[1]
                     /\ Some(sreq[r].transport) # sreq[r].header)
    /\ [](smgr.made = Cardinality(DOMAIN smgr.transports)
          /\ \A r1, r2 \in SRequests :
                (r1 # r2 /\ sreq[r1].created # <<>> /\ sreq[r2].created # <<>>)
                => sreq[r1].created[1] # sreq[r2].created[1])

\* A request carrying the id of a session that has ended and left the
\* registry was answered by a new transport of another id, and another
\* request carrying a registered id was answered by the registered transport.
C28_Witness ==
    \E r1, r2 \in SRequests :
        /\ sreq[r1].pc = "done"
        /\ sreq[r1].header = Some("s1")
        /\ sreq[r1].created = <<"s2">>
        /\ sreq[r1].transport = "s2"
        /\ sreq[r1].outcome = "handled"
        /\ smgr.transports["s1"].state = "ended"
        /\ sreq[r2].pc = "done"
        /\ sreq[r2].header = Some("s2")
        /\ sreq[r2].created = <<>>
        /\ sreq[r2].transport = "s2"
        /\ sreq[r2].outcome = "handled"

\* The lookup of a create_branch call was answered with a body that holds at
\* least one reference.
LookupFound(i) ==
    /\ received[i] # <<>>
    /\ LET r == request_receive(received[i][1])
       IN  r.kind = "return" /\ r.value # None /\ Len(Val(r.value).refs) > 0

\* C29: create_branch sends its reference lookup (GET) first and its write
\* (POST) second and last; the write is sent only after the lookup was
\* answered with success and at least one reference; the write goes to the
\* refs URL of the lookup and its body is one entry naming refs/heads/<name>,
\* with oldObjectId the all-zero id and newObjectId the objectId of the first
\* reference of the lookup's answer; after a lookup that ended in a client
\* error the GET stays the only request.
C29_LookupBeforeWrite ==
    \A i \in DOMAIN pc :
        call[i].op = "create_branch"
        => /\ Len(sent[i]) <= 2
           /\ Len(sent[i]) >= 1
              => /\ sent[i][1].method = "GET"
                 /\ sent[i][1].params["filter"]
                      = <<"heads/", call[i].args.source_ref>>
           /\ Len(sent[i]) = 2
              => /\ LookupFound(i)
                 /\ sent[i][2].method = "POST"
                 /\ sent[i][2].url = sent[i][1].url
                 /\ sent[i][2].json
                      = Some(<<[name |-> <<"refs/heads/", call[i].args.name>>,
                                oldObjectId
                                  |-> "0000000000000000000000000000000000000000",
                                newObjectId
                                  |-> Val(request_receive(received[i][1]).value)
                                        .refs[1]]>>)
           /\ (received[i] # <<>>
               /\ request_receive(received[i][1]).kind = "raise")
              => /\ Len(sent[i]) = 1
                 /\ Ended(i)
                 /\ outcome[i] = request_receive(received[i][1])

\* A create_branch call whose lookup returned two references has sent its
\* write, pointing at the first of them.
C29_Witness ==
    \E i \in DOMAIN pc :
        /\ call[i].op = "create_branch"
        /\ Len(sent[i]) = 2
        /\ Len(received[i]) >= 1
        /\ received[i][1].kind = "http"
        /\ received[i][1].status = 200
        /\ received[i][1].body.refs = <<"a1b2c3", "d4e5f6">>
        /\ Val(sent[i][2].json)[1].newObjectId = "a1b2c3"

====
